---- MODULE Spec2Model ----
(***************************************************************************)
(* Model of the AutoLab lab controller (lab_controller.py): the two       *)
(* watchdog observers (sequence file, plate data), their handlers taken   *)
(* statement by statement, the main thread of LabController.run, and the  *)
(* files the handlers read and write.                                     *)
(*                                                                         *)
(* Threads: the main thread (pcMain), the thread of the current sequence  *)
(* observer (pcSeq), the thread of the current plate observer (pcPlate),  *)
(* and plate-observer threads that were stopped from inside their own     *)
(* callback and still have the last statement of on_modified to run       *)
(* (orphans).                                                             *)
(***************************************************************************)
EXTENDS Integers, Sequences, FiniteSets, TLC

\* ------------------------------------------------------------------ bounds
\* Number of file writes the environment performs in one run.
MaxWrites == 4
\* Events an observer may hold undelivered when the environment writes.
MaxQueue == 2
\* Number of distinct contents a file can be given.
NumContents == 2

\* --------------------------------------------------------------- constants
\* The reagent worklists debited in one generation cycle.
NumReagentWorklists == 5

\* LabState (the enum's member names).
LabState == {"IDLE", "SEQUENCE_RECEIVED", "EXPERIMENTING", "PROCESSING", "ERROR"}

\* Paths, as sequences of the pieces str.endswith can tell apart.
data_dir == <<"data", "/">>
sequence_query == <<"sequence_query.txt">>
plate_data == <<"plate_data.csv">>
processed_data == <<"processed_", "plate_data.csv">>

\* os.path.join(data_dir, name)
PathJoin(dir, name) == dir \o name

\* SequenceHandler.sequence_file
sequence_file == PathJoin(data_dir, sequence_query)
\* PlateDataHandler.input_filename / output_filename
input_filename == plate_data
output_filename == processed_data

\* The files of data_dir that are written during a run.
SeqPath == PathJoin(data_dir, sequence_query)
PlatePath == PathJoin(data_dir, plate_data)
ProcessedPath == PathJoin(data_dir, processed_data)

\* str.endswith
EndsWith(s, suffix) ==
    /\ Len(suffix) <= Len(s)
    /\ SubSeq(s, Len(s) - Len(suffix) + 1, Len(s)) = suffix

Contents == 1..NumContents

VARIABLES
    status,               \* LabController.status
    sequence_observer,    \* LabController.sequence_observer: none/created/running/stopped
    plate_observer,       \* LabController.plate_observer: none/running/stopped
    seq_queue,            \* event queue of the current sequence observer
    plate_queue,          \* event queue of the current plate observer
    last_processed_hash,  \* of the current PlateDataHandler
    current_hash,         \* local of PlateDataHandler.on_modified
    pcMain,               \* position of the main thread in run()
    pcSeq,                \* position of the sequence observer's thread
    pcPlate,              \* position of the plate observer's thread
    orphans,              \* stopped plate threads still inside on_modified
    rgnt_idx,             \* loop index over worklist_files
    seq_file,             \* content of data/sequence_query.txt
    plate_file,           \* content of data/plate_data.csv
    processed_file,       \* content of data/processed_plate_data.csv
    dna_inventory_file,   \* debits persisted in inventories/dna_inventory.json
    rgnt_inventory_file,  \* debits persisted in inventories/reagent_inventory.json
    gen_result,           \* last return value of generate_lab_files
    pt_result,            \* last return value of process_and_transfer
    transfer_ok,          \* last return value of transfer_file
    nWrites,              \* writes the environment has done
    cycle0,               \* history: subscriptions and ledgers when the cycle began
    last_seq_hash,        \* history: hash of the sequence content of the last cycle
    last_plate_hash,      \* history: hash of the last plate data analysed
    tracker_kind,         \* which tracker class the ledger run uses: dna / rgnt
    inventory,            \* DNATracker.inventory / RgntTracker.inventory
    inventory_file,       \* content of the tracker's inventory_file
    pcTracker,            \* position of the caller inside a tracker method
    call,                 \* the tracker call in progress or last completed
    prev,                 \* summary of the completed call before it
    other,                \* self.inventory of a second tracker instance
    data,                 \* find_sequence_fragments: rows of the fragment CSV
    sequence,             \* find_sequence_fragments: the target sequence
    start,                \* find_sequence_fragments: first uncovered offset
    result,               \* find_sequence_fragments: fragment ids so far
    pcFind,               \* find_sequence_fragments: loop / returned / raised
    returned,             \* what find_sequence_fragments hands to its caller
    all_fragments,        \* main: one list of fragment ids per sequence
    all_wells,            \* write_worklist: one list of wells per sequence
    written,              \* write_worklist: how it ended, and with what rows
    worklist_file,        \* fragment_assembly_worklist.csv
    plate_fragments,      \* generate_assay_plate main: what its
                          \* find_sequence_fragments gave for the sequence
    sequence_fragments,   \* generate_assay_plate main: fragment ids per key
    layout,               \* create_plate_layout: the dictionary well -> label
    pcLayout,             \* generate_assay_plate main: start / written
    nOps                  \* tracker calls completed

vars == <<status, sequence_observer, plate_observer, seq_queue, plate_queue,
          last_processed_hash, current_hash, pcMain, pcSeq, pcPlate, orphans,
          rgnt_idx, seq_file, plate_file, processed_file, dna_inventory_file,
          rgnt_inventory_file, gen_result, pt_result, transfer_ok, nWrites,
          cycle0, last_seq_hash, last_plate_hash>>

obsVars == <<sequence_observer, plate_observer>>
queueVars == <<seq_queue, plate_queue>>
plateLocals == <<last_processed_hash, current_hash>>
fileVars == <<seq_file, plate_file, processed_file>>
ledgerVars == <<dna_inventory_file, rgnt_inventory_file>>
resultVars == <<gen_result, pt_result, transfer_ok>>
histVars == <<cycle0, last_seq_hash, last_plate_hash>>
trackerVars == <<tracker_kind, inventory, inventory_file, pcTracker, call, prev,
                 other, nOps>>
findVars == <<data, sequence, start, result, pcFind, returned>>
worklistVars == <<all_fragments, all_wells, written, worklist_file>>
layoutVars == <<plate_fragments, sequence_fragments, layout, pcLayout>>
planVars == <<findVars, worklistVars, layoutVars>>

\* An observer delivers events from start() until stop().
SeqActive == sequence_observer = "running"
PlateActive == plate_observer = "running"
ActiveSet == (IF SeqActive THEN {"sequence"} ELSE {}) \cup
             (IF PlateActive THEN {"plate"} ELSE {})

\* File contents: what kind of data the bytes are and which of the
\* Contents they carry.
Absent == [kind |-> "absent", v |-> 0]
SeqData(c) == [kind |-> "sequences", v |-> c]
PlateData(c) == [kind |-> "plate", v |-> c]

\* get_file_hash: hashlib.md5(bytes).hexdigest(), equal exactly for equal
\* contents.
get_file_hash(content) == [md5 |-> content]
\* last_processed_hash = None: equal to no digest.
NoHash == [md5 |-> [kind |-> "None", v |-> 0]]

\* The content of the file at a path.
FileAt(path) ==
    IF path = SeqPath THEN seq_file
    ELSE IF path = PlatePath THEN plate_file
    ELSE processed_file

\* process_plate_data.py main(): the phenotype file written to --output is a
\* function of the plate data read from --input.
Analyze(content) == [kind |-> "phenotype", v |-> content.v]

\* A modification of a file of data_dir reaches every running observer
\* (both are scheduled on data_dir).
Deliver(path) ==
    /\ seq_queue' = IF SeqActive THEN Append(seq_queue, path) ELSE seq_queue
    /\ plate_queue' = IF PlateActive THEN Append(plate_queue, path) ELSE plate_queue

ControllerInit ==
    /\ status = "IDLE"
    /\ sequence_observer = "none"
    /\ plate_observer = "none"
    /\ seq_queue = <<>>
    /\ plate_queue = <<>>
    /\ last_processed_hash = NoHash
    /\ current_hash = NoHash
    /\ pcMain = "init"
    /\ pcSeq = "idle"
    /\ pcPlate = "idle"
    /\ orphans = 0
    /\ rgnt_idx = 0
    /\ seq_file = SeqData(1)
    /\ plate_file = PlateData(1)
    /\ processed_file = Absent
    /\ dna_inventory_file = 0
    /\ rgnt_inventory_file = 0
    /\ gen_result = "None"
    /\ pt_result = "None"
    /\ transfer_ok = "None"
    /\ nWrites = 0
    /\ cycle0 = [subs |-> {}, dna |-> 0, rgnt |-> 0]
    /\ last_seq_hash = NoHash
    /\ last_plate_hash = NoHash

\* In the controller's specification the trackers are the debit counters
\* above; the detailed tracker state is not used.
TrackerUnused ==
    /\ tracker_kind = "none"
    /\ inventory = <<>>
    /\ inventory_file = <<>>
    /\ pcTracker = "idle"
    /\ call = <<>>
    /\ prev = <<>>
    /\ other = <<>>
    /\ nOps = 0

\* Likewise the planning scripts are single steps of the controller; their
\* detailed state is not used there.
FindUnused ==
    /\ data = <<>>
    /\ sequence = <<>>
    /\ start = 0
    /\ result = <<>>
    /\ pcFind = "unused"
    /\ returned = <<>>

WorklistUnused ==
    /\ all_fragments = <<>>
    /\ all_wells = <<>>
    /\ written = <<>>
    /\ worklist_file = <<>>

LayoutUnused ==
    /\ plate_fragments = <<>>
    /\ sequence_fragments = <<>>
    /\ layout = <<>>
    /\ pcLayout = "unused"

Init ==
    /\ ControllerInit /\ TrackerUnused /\ FindUnused /\ WorklistUnused
    /\ LayoutUnused

Alive == pcMain # "done"

\* ------------------------------------------------------------ environment
\* The sequence file is (re)written: by the git pull of the polling side or
\* by hand.  Writing the content it already has is a no-op write.
WriteSequence(c) ==
    /\ Alive
    /\ nWrites < MaxWrites
    /\ SeqActive => Len(seq_queue) < MaxQueue
    /\ PlateActive => Len(plate_queue) < MaxQueue
    /\ seq_file' = SeqData(c)
    /\ Deliver(SeqPath)
    /\ nWrites' = nWrites + 1
    /\ UNCHANGED trackerVars
    /\ UNCHANGED planVars
    /\ UNCHANGED <<status, obsVars, plateLocals, pcMain, pcSeq, pcPlate, orphans,
                   rgnt_idx, plate_file, processed_file, ledgerVars, resultVars,
                   histVars>>

\* The plate reader (or the upload endpoint) writes data/plate_data.csv.
WritePlate(c) ==
    /\ Alive
    /\ nWrites < MaxWrites
    /\ SeqActive => Len(seq_queue) < MaxQueue
    /\ PlateActive => Len(plate_queue) < MaxQueue
    /\ plate_file' = PlateData(c)
    /\ Deliver(PlatePath)
    /\ nWrites' = nWrites + 1
    /\ UNCHANGED trackerVars
    /\ UNCHANGED planVars
    /\ UNCHANGED <<status, obsVars, plateLocals, pcMain, pcSeq, pcPlate, orphans,
                   rgnt_idx, seq_file, processed_file, ledgerVars, resultVars,
                   histVars>>

\* ------------------------------------------------------------ main thread
\* start_sequence_monitoring: a new handler and a new observer, scheduled
\* on data_dir and started.
start_sequence_monitoring ==
    /\ sequence_observer' = "running"
    /\ seq_queue' = <<>>

\* Fault variant of RunStart: the observer is created and scheduled but never
\* started.
RunStart_Unstarted ==
    /\ pcMain = "init"
    /\ sequence_observer' = "created"
    /\ pcMain' = "sleeping"
    /\ UNCHANGED trackerVars
    /\ UNCHANGED planVars
    /\ UNCHANGED <<status, plate_observer, queueVars, plateLocals, pcSeq,
                   pcPlate, orphans, rgnt_idx, fileVars, ledgerVars, resultVars,
                   nWrites, histVars>>

\* run(): start_sequence_monitoring() succeeds; the main thread then sleeps.
RunStart ==
    /\ pcMain = "init"
    /\ start_sequence_monitoring
    /\ pcMain' = "sleeping"
    /\ UNCHANGED trackerVars
    /\ UNCHANGED planVars
    /\ UNCHANGED <<status, plate_observer, plate_queue, plateLocals, pcSeq,
                   pcPlate, orphans, rgnt_idx, fileVars, ledgerVars, resultVars,
                   nWrites, histVars>>

\* run(): Observer.schedule/start raises (data_dir cannot be watched); the
\* except branch sets ERROR and run() returns.
RunError ==
    /\ pcMain = "init"
    /\ sequence_observer' = "created"
    /\ status' = "ERROR"
    /\ pcMain' = "done"
    /\ UNCHANGED trackerVars
    /\ UNCHANGED planVars
    /\ UNCHANGED <<plate_observer, queueVars, plateLocals, pcSeq, pcPlate,
                   orphans, rgnt_idx, fileVars, ledgerVars, resultVars, nWrites,
                   histVars>>

\* KeyboardInterrupt: if self.sequence_observer: stop()
ShutdownSeq ==
    /\ pcMain = "sleeping"
    /\ sequence_observer' = IF sequence_observer = "none" THEN "none" ELSE "stopped"
    /\ pcMain' = IF sequence_observer = "none" THEN "shut_plate" ELSE "join_seq"
    /\ UNCHANGED trackerVars
    /\ UNCHANGED planVars
    /\ UNCHANGED <<status, plate_observer, queueVars, plateLocals, pcSeq,
                   pcPlate, orphans, rgnt_idx, fileVars, ledgerVars, resultVars,
                   nWrites, histVars>>

\* self.sequence_observer.join(): returns once that observer's thread ended.
JoinSeq ==
    /\ pcMain = "join_seq"
    /\ sequence_observer # "running"
    /\ pcSeq = "idle"
    /\ pcMain' = "shut_plate"
    /\ UNCHANGED trackerVars
    /\ UNCHANGED planVars
    /\ UNCHANGED <<status, obsVars, queueVars, plateLocals, pcSeq, pcPlate,
                   orphans, rgnt_idx, fileVars, ledgerVars, resultVars, nWrites,
                   histVars>>

\* if self.plate_observer: stop()
ShutdownPlate ==
    /\ pcMain = "shut_plate"
    /\ plate_observer' = IF plate_observer = "none" THEN "none" ELSE "stopped"
    /\ pcMain' = IF plate_observer = "none" THEN "done" ELSE "join_plate"
    /\ UNCHANGED trackerVars
    /\ UNCHANGED planVars
    /\ UNCHANGED <<status, sequence_observer, queueVars, plateLocals, pcSeq,
                   pcPlate, orphans, rgnt_idx, fileVars, ledgerVars, resultVars,
                   nWrites, histVars>>

\* self.plate_observer.join(); run() returns and the process exits (observer
\* threads are daemon threads).  If the plate handler has set the field to
\* None meanwhile, the attribute error ends the process as well.
JoinPlate ==
    /\ pcMain = "join_plate"
    /\ \/ plate_observer = "none"
       \/ plate_observer = "stopped" /\ pcPlate = "idle"
    /\ pcMain' = "done"
    /\ UNCHANGED trackerVars
    /\ UNCHANGED planVars
    /\ UNCHANGED <<status, obsVars, queueVars, plateLocals, pcSeq, pcPlate,
                   orphans, rgnt_idx, fileVars, ledgerVars, resultVars, nWrites,
                   histVars>>

\* ------------------------------------------------- sequence observer thread
\* The observer thread takes the next event of its queue and calls
\* SequenceHandler.on_modified, whose path test fails: nothing happens.
SeqDispatchIgnore ==
    /\ Alive
    /\ SeqActive
    /\ pcSeq = "idle"
    /\ seq_queue # <<>>
    /\ ~EndsWith(Head(seq_queue), sequence_file)
    /\ seq_queue' = Tail(seq_queue)
    /\ UNCHANGED trackerVars
    /\ UNCHANGED planVars
    /\ UNCHANGED <<status, obsVars, plate_queue, plateLocals, pcMain, pcSeq,
                   pcPlate, orphans, rgnt_idx, fileVars, ledgerVars, resultVars,
                   nWrites, histVars>>

\* SequenceHandler.on_modified, path test true: status = SEQUENCE_RECEIVED
\* and the call of generate_lab_files begins.  No hash is compared.
SeqDispatchMatch ==
    /\ Alive
    /\ SeqActive
    /\ pcSeq = "idle"
    /\ seq_queue # <<>>
    /\ EndsWith(Head(seq_queue), sequence_file)
    /\ seq_queue' = Tail(seq_queue)
    /\ status' = "SEQUENCE_RECEIVED"
    /\ pcSeq' = "worklist"
    /\ cycle0' = [subs |-> ActiveSet, dna |-> dna_inventory_file,
                  rgnt |-> rgnt_inventory_file]
    /\ last_seq_hash' = get_file_hash(seq_file)
    /\ gen_result' = "pending"
    /\ UNCHANGED trackerVars
    /\ UNCHANGED planVars
    /\ UNCHANGED <<obsVars, plate_queue, plateLocals, pcMain, pcPlate, orphans,
                   rgnt_idx, fileVars, ledgerVars, pt_result, transfer_ok,
                   nWrites, last_plate_hash>>

\* generate_lab_files: subprocess seq_to_pipetting_steps.py exits with 0.
GenWorklistOk ==
    /\ Alive
    /\ pcSeq = "worklist"
    /\ pcSeq' = "dna"
    /\ UNCHANGED trackerVars
    /\ UNCHANGED planVars
    /\ UNCHANGED <<status, obsVars, queueVars, plateLocals, pcMain, pcPlate,
                   orphans, rgnt_idx, fileVars, ledgerVars, resultVars, nWrites,
                   histVars>>

\* generate_lab_files: the trackers are built and DNATracker.update_volumes
\* debits the fragment worklist and saves the inventory file.
GenDnaDebit ==
    /\ Alive
    /\ pcSeq = "dna"
    /\ dna_inventory_file' = dna_inventory_file + 1
    /\ rgnt_idx' = 0
    /\ pcSeq' = "rgnt"
    /\ UNCHANGED trackerVars
    /\ UNCHANGED planVars
    /\ UNCHANGED <<status, obsVars, queueVars, plateLocals, pcMain, pcPlate,
                   orphans, fileVars, rgnt_inventory_file, resultVars, nWrites,
                   histVars>>

\* Fault variant of GenRgntDebit: the loop advances without the inventory
\* file being saved.
GenRgntDebit_NoSave ==
    /\ Alive
    /\ pcSeq = "rgnt"
    /\ rgnt_idx < NumReagentWorklists
    /\ rgnt_idx' = rgnt_idx + 1
    /\ UNCHANGED trackerVars
    /\ UNCHANGED planVars
    /\ UNCHANGED <<status, obsVars, queueVars, plateLocals, pcMain, pcSeq,
                   pcPlate, orphans, fileVars, ledgerVars, resultVars, nWrites,
                   histVars>>

\* generate_lab_files: one turn of the loop over worklist_files;
\* RgntTracker.update_volumes debits that worklist and saves.
GenRgntDebit ==
    /\ Alive
    /\ pcSeq = "rgnt"
    /\ rgnt_idx < NumReagentWorklists
    /\ rgnt_inventory_file' = rgnt_inventory_file + 1
    /\ rgnt_idx' = rgnt_idx + 1
    /\ UNCHANGED trackerVars
    /\ UNCHANGED planVars
    /\ UNCHANGED <<status, obsVars, queueVars, plateLocals, pcMain, pcSeq,
                   pcPlate, orphans, fileVars, dna_inventory_file, resultVars,
                   nWrites, histVars>>

\* generate_lab_files: the loop is over; the updates are logged.
GenRgntDone ==
    /\ Alive
    /\ pcSeq = "rgnt"
    /\ rgnt_idx = NumReagentWorklists
    /\ pcSeq' = "layout"
    /\ UNCHANGED trackerVars
    /\ UNCHANGED planVars
    /\ UNCHANGED <<status, obsVars, queueVars, plateLocals, pcMain, pcPlate,
                   orphans, rgnt_idx, fileVars, ledgerVars, resultVars, nWrites,
                   histVars>>

\* generate_lab_files: subprocess generate_assay_plate.py exits with 0.
GenLayoutOk ==
    /\ Alive
    /\ pcSeq = "layout"
    /\ pcSeq' = "stop_seq"
    /\ UNCHANGED trackerVars
    /\ UNCHANGED planVars
    /\ UNCHANGED <<status, obsVars, queueVars, plateLocals, pcMain, pcPlate,
                   orphans, rgnt_idx, fileVars, ledgerVars, resultVars, nWrites,
                   histVars>>

\* Fault variant of GenStop: the call of sequence_observer.stop() is missing.
GenStop_NoStop ==
    /\ Alive
    /\ pcSeq = "stop_seq"
    /\ gen_result' = "True"
    /\ pcSeq' = "returned_true"
    /\ UNCHANGED trackerVars
    /\ UNCHANGED planVars
    /\ UNCHANGED <<status, obsVars, queueVars, plateLocals, pcMain, pcPlate,
                   orphans, rgnt_idx, fileVars, ledgerVars, pt_result,
                   transfer_ok, nWrites, histVars>>

\* generate_lab_files: self.sequence_observer.stop(); return True.  The
\* events still queued in the stopped observer are never dispatched.
GenStop ==
    /\ Alive
    /\ pcSeq = "stop_seq"
    /\ sequence_observer' = "stopped"
    /\ seq_queue' = <<>>
    /\ gen_result' = "True"
    /\ pcSeq' = "returned_true"
    /\ UNCHANGED trackerVars
    /\ UNCHANGED planVars
    /\ UNCHANGED <<status, plate_observer, plate_queue, plateLocals, pcMain,
                   pcPlate, orphans, rgnt_idx, fileVars, ledgerVars, pt_result,
                   transfer_ok, nWrites, histVars>>

\* The steps of generate_lab_files inside its try block that can raise.
GenSteps == {"worklist", "dna", "rgnt", "layout"}

\* generate_lab_files: a subprocess exits non-zero or a tracker raises (a
\* worklist file is missing or malformed: the inventory file is not written);
\* the except branch logs and returns False, and on_modified returns.
GenFail ==
    /\ Alive
    /\ pcSeq \in GenSteps
    /\ gen_result' = "False"
    /\ pcSeq' = "idle"
    /\ UNCHANGED trackerVars
    /\ UNCHANGED planVars
    /\ UNCHANGED <<status, obsVars, queueVars, plateLocals, pcMain, pcPlate,
                   orphans, rgnt_idx, fileVars, ledgerVars, pt_result,
                   transfer_ok, nWrites, histVars>>

\* SequenceHandler.on_modified: status = EXPERIMENTING.
SetExperimenting ==
    /\ Alive
    /\ pcSeq = "returned_true"
    /\ status' = "EXPERIMENTING"
    /\ pcSeq' = "start_plate"
    /\ UNCHANGED trackerVars
    /\ UNCHANGED planVars
    /\ UNCHANGED <<obsVars, queueVars, plateLocals, pcMain, pcPlate, orphans,
                   rgnt_idx, fileVars, ledgerVars, resultVars, nWrites, histVars>>

\* start_plate_monitoring: an observer left in the field is stopped and
\* joined; a new PlateDataHandler (last_processed_hash None) and a new
\* observer are created and started.  on_modified returns.
start_plate_monitoring ==
    /\ Alive
    /\ pcSeq = "start_plate"
    /\ plate_observer # "none" => pcPlate = "idle"
    /\ plate_observer' = "running"
    /\ plate_queue' = <<>>
    /\ last_processed_hash' = NoHash
    /\ pcSeq' = "idle"
    /\ UNCHANGED trackerVars
    /\ UNCHANGED planVars
    /\ UNCHANGED <<status, sequence_observer, seq_queue, current_hash, pcMain,
                   pcPlate, orphans, rgnt_idx, fileVars, ledgerVars, resultVars,
                   nWrites, histVars>>

\* ---------------------------------------------------- plate observer thread
\* PlateDataHandler.on_modified: the path does not end with input_filename.
PlateDispatchIgnore ==
    /\ Alive
    /\ PlateActive
    /\ pcPlate = "idle"
    /\ plate_queue # <<>>
    /\ ~EndsWith(Head(plate_queue), input_filename)
    /\ plate_queue' = Tail(plate_queue)
    /\ UNCHANGED trackerVars
    /\ UNCHANGED planVars
    /\ UNCHANGED <<status, obsVars, seq_queue, plateLocals, pcMain, pcSeq,
                   pcPlate, orphans, rgnt_idx, fileVars, ledgerVars, resultVars,
                   nWrites, histVars>>

\* PlateDataHandler.on_modified: the hash of the event's file equals
\* last_processed_hash; return.
PlateDispatchSame ==
    /\ Alive
    /\ PlateActive
    /\ pcPlate = "idle"
    /\ plate_queue # <<>>
    /\ EndsWith(Head(plate_queue), input_filename)
    /\ get_file_hash(FileAt(Head(plate_queue))) = last_processed_hash
    /\ plate_queue' = Tail(plate_queue)
    /\ current_hash' = get_file_hash(FileAt(Head(plate_queue)))
    /\ UNCHANGED trackerVars
    /\ UNCHANGED planVars
    /\ UNCHANGED <<status, obsVars, seq_queue, last_processed_hash, pcMain,
                   pcSeq, pcPlate, orphans, rgnt_idx, fileVars, ledgerVars,
                   resultVars, nWrites, histVars>>

\* PlateDataHandler.on_modified: the hash differs; process_and_transfer is
\* called.
PlateDispatchNew ==
    /\ Alive
    /\ PlateActive
    /\ pcPlate = "idle"
    /\ plate_queue # <<>>
    /\ EndsWith(Head(plate_queue), input_filename)
    /\ get_file_hash(FileAt(Head(plate_queue))) # last_processed_hash
    /\ plate_queue' = Tail(plate_queue)
    /\ current_hash' = get_file_hash(FileAt(Head(plate_queue)))
    /\ pcPlate' = "analyze"
    /\ pt_result' = "pending"
    /\ transfer_ok' = "None"
    /\ last_plate_hash' = get_file_hash(FileAt(Head(plate_queue)))
    /\ UNCHANGED trackerVars
    /\ UNCHANGED planVars
    /\ UNCHANGED <<status, obsVars, seq_queue, last_processed_hash, pcMain,
                   pcSeq, orphans, rgnt_idx, fileVars, ledgerVars, gen_result,
                   nWrites, cycle0, last_seq_hash>>

\* process_and_transfer: subprocess process_plate_data.py exits with 0, having
\* written the output file into data_dir, which the observers watch.  The
\* exit status of the subprocess is the environment's choice (AnalyzeFail
\* is the other outcome).
AnalyzeOk ==
    /\ Alive
    /\ pcPlate = "analyze"
    /\ processed_file' = Analyze(plate_file)
    /\ Deliver(ProcessedPath)
    /\ pcPlate' = "connect"
    /\ UNCHANGED trackerVars
    /\ UNCHANGED planVars
    /\ UNCHANGED <<status, obsVars, plateLocals, pcMain, pcSeq, orphans,
                   rgnt_idx, seq_file, plate_file, ledgerVars, resultVars,
                   nWrites, histVars>>

\* process_and_transfer: the subprocess exits non-zero; CalledProcessError is
\* caught and logged, and the function returns None.
AnalyzeFail ==
    /\ Alive
    /\ pcPlate = "analyze"
    /\ pt_result' = "None"
    /\ pcPlate' = "set_hash"
    /\ UNCHANGED trackerVars
    /\ UNCHANGED planVars
    /\ UNCHANGED <<status, obsVars, queueVars, plateLocals, pcMain, pcSeq,
                   orphans, rgnt_idx, fileVars, ledgerVars, gen_result,
                   transfer_ok, nWrites, histVars>>

\* process_and_transfer: SFTPTransfer.connect() returns True.
ConnectOk ==
    /\ Alive
    /\ pcPlate = "connect"
    /\ pcPlate' = "transfer"
    /\ UNCHANGED trackerVars
    /\ UNCHANGED planVars
    /\ UNCHANGED <<status, obsVars, queueVars, plateLocals, pcMain, pcSeq,
                   orphans, rgnt_idx, fileVars, ledgerVars, resultVars, nWrites,
                   histVars>>

\* process_and_transfer: connect() returns False; return False.
ConnectFail ==
    /\ Alive
    /\ pcPlate = "connect"
    /\ pt_result' = "False"
    /\ pcPlate' = "set_hash"
    /\ UNCHANGED trackerVars
    /\ UNCHANGED planVars
    /\ UNCHANGED <<status, obsVars, queueVars, plateLocals, pcMain, pcSeq,
                   orphans, rgnt_idx, fileVars, ledgerVars, gen_result,
                   transfer_ok, nWrites, histVars>>

\* process_and_transfer: transfer.transfer_file(output_path), which returns
\* True, or False when the upload fails; the value is not looked at.
\* transfer.close().
Transfer(ok) ==
    /\ Alive
    /\ pcPlate = "transfer"
    /\ transfer_ok' = ok
    /\ pcPlate' = "stop_plate"
    /\ UNCHANGED trackerVars
    /\ UNCHANGED planVars
    /\ UNCHANGED <<status, obsVars, queueVars, plateLocals, pcMain, pcSeq,
                   orphans, rgnt_idx, fileVars, ledgerVars, gen_result,
                   pt_result, nWrites, histVars>>

\* Fault variant of StopPlate: the plate observer is neither stopped nor
\* cleared.
StopPlate_NoStop ==
    /\ Alive
    /\ pcPlate = "stop_plate"
    /\ pcPlate' = "restart_seq"
    /\ UNCHANGED trackerVars
    /\ UNCHANGED planVars
    /\ UNCHANGED <<status, obsVars, queueVars, plateLocals, pcMain, pcSeq,
                   orphans, rgnt_idx, fileVars, ledgerVars, resultVars, nWrites,
                   histVars>>

\* process_and_transfer: controller.plate_observer.stop();
\* controller.plate_observer = None.
StopPlate ==
    /\ Alive
    /\ pcPlate = "stop_plate"
    /\ plate_observer' = "none"
    /\ plate_queue' = <<>>
    /\ pcPlate' = "restart_seq"
    /\ UNCHANGED trackerVars
    /\ UNCHANGED planVars
    /\ UNCHANGED <<status, sequence_observer, seq_queue, plateLocals, pcMain,
                   pcSeq, orphans, rgnt_idx, fileVars, ledgerVars, resultVars,
                   nWrites, histVars>>

\* Fault variant of RestartSeq: start_sequence_monitoring() is not called.
RestartSeq_NoStart ==
    /\ Alive
    /\ pcPlate = "restart_seq"
    /\ pt_result' = "True"
    /\ pcPlate' = "idle"
    /\ orphans' = orphans + 1
    /\ UNCHANGED trackerVars
    /\ UNCHANGED planVars
    /\ UNCHANGED <<status, obsVars, queueVars, plateLocals, pcMain, pcSeq,
                   rgnt_idx, fileVars, ledgerVars, gen_result, transfer_ok,
                   nWrites, histVars>>

\* process_and_transfer: controller.start_sequence_monitoring(); return True.
\* The thread, whose observer is stopped, is left with the last statement of
\* on_modified.
RestartSeq ==
    /\ Alive
    /\ pcPlate = "restart_seq"
    /\ start_sequence_monitoring
    /\ pt_result' = "True"
    /\ pcPlate' = "idle"
    /\ orphans' = orphans + 1
    /\ UNCHANGED trackerVars
    /\ UNCHANGED planVars
    /\ UNCHANGED <<status, plate_observer, plate_queue, plateLocals, pcMain,
                   pcSeq, rgnt_idx, fileVars, ledgerVars, gen_result,
                   transfer_ok, nWrites, histVars>>

\* PlateDataHandler.on_modified, after process_and_transfer returned None or
\* False: self.last_processed_hash = current_hash.
SetHash ==
    /\ Alive
    /\ pcPlate = "set_hash"
    /\ last_processed_hash' = current_hash
    /\ pcPlate' = "idle"
    /\ UNCHANGED trackerVars
    /\ UNCHANGED planVars
    /\ UNCHANGED <<status, obsVars, queueVars, current_hash, pcMain, pcSeq,
                   orphans, rgnt_idx, fileVars, ledgerVars, resultVars, nWrites,
                   histVars>>

\* PlateDataHandler.on_modified, after process_and_transfer returned True:
\* the same assignment, on a handler no observer dispatches to any more.
OrphanSetHash ==
    /\ Alive
    /\ orphans > 0
    /\ orphans' = orphans - 1
    /\ UNCHANGED trackerVars
    /\ UNCHANGED planVars
    /\ UNCHANGED <<status, obsVars, queueVars, plateLocals, pcMain, pcSeq,
                   pcPlate, rgnt_idx, fileVars, ledgerVars, resultVars, nWrites,
                   histVars>>

\* ------------------------------------------------------------ specification
Next ==
    \/ \E c \in Contents : WriteSequence(c)
    \/ \E c \in Contents : WritePlate(c)
    \/ RunStart
    \/ RunError
    \/ ShutdownSeq
    \/ JoinSeq
    \/ ShutdownPlate
    \/ JoinPlate
    \/ SeqDispatchIgnore
    \/ SeqDispatchMatch
    \/ GenWorklistOk
    \/ GenDnaDebit
    \/ GenRgntDebit
    \/ GenRgntDone
    \/ GenLayoutOk
    \/ GenStop
    \/ GenFail
    \/ SetExperimenting
    \/ start_plate_monitoring
    \/ PlateDispatchIgnore
    \/ PlateDispatchSame
    \/ PlateDispatchNew
    \/ AnalyzeOk
    \/ AnalyzeFail
    \/ ConnectOk
    \/ ConnectFail
    \/ \E ok \in {"True", "False"} : Transfer(ok)
    \/ StopPlate
    \/ RestartSeq
    \/ SetHash
    \/ OrphanSetHash

Spec == Init /\ [][Next]_vars

\* ---- the plate analysis as the repository invokes it
\* process_plate_data.py main(): the arguments argparse requires.
RequiredArguments == {"--input", "--output", "--sequence_file"}

\* process_and_transfer: the arguments given to process_plate_data.py.
PassedArguments == {"--input", "--output"}

\* The exit status of the subprocess: argparse ends the script with status 2
\* when a required argument is missing.
SubprocessExit ==
    IF RequiredArguments \subseteq PassedArguments THEN 0 ELSE 2

\* process_and_transfer with this exit status: subprocess.run(check=True)
\* raises CalledProcessError on a non-zero status, which is caught and
\* logged; the output file is not written.
AnalyzeAsInvoked ==
    /\ SubprocessExit # 0
    /\ AnalyzeFail

\* The controller with the analysis subprocess as it is invoked.  A status
\* of 0, and with it the transfer and the hand-over back to sequence
\* monitoring, does not occur.
AnalysisNext ==
    \/ \E c \in Contents : WriteSequence(c)
    \/ \E c \in Contents : WritePlate(c)
    \/ RunStart
    \/ RunError
    \/ ShutdownSeq
    \/ JoinSeq
    \/ ShutdownPlate
    \/ JoinPlate
    \/ SeqDispatchIgnore
    \/ SeqDispatchMatch
    \/ GenWorklistOk
    \/ GenDnaDebit
    \/ GenRgntDebit
    \/ GenRgntDone
    \/ GenLayoutOk
    \/ GenStop
    \/ GenFail
    \/ SetExperimenting
    \/ start_plate_monitoring
    \/ PlateDispatchIgnore
    \/ PlateDispatchSame
    \/ PlateDispatchNew
    \/ AnalyzeAsInvoked
    \/ SetHash

SpecAnalysis == Init /\ [][AnalysisNext]_vars

TypeOK ==
    /\ status \in LabState
    /\ sequence_observer \in {"none", "created", "running", "stopped"}
    /\ plate_observer \in {"none", "running", "stopped"}
    /\ orphans \in Nat
    /\ rgnt_idx \in 0..NumReagentWorklists

\* ---------------------------------------------------- inventory trackers
\* DNATracker and RgntTracker share their code line for line apart from the
\* default inventory and the Source_Plate filter; tracker_kind selects one.
\* The timestamp of a history event is omitted; volumes are whole microlitres.

\* Longest run of tracker calls explored.
MaxOps == 2

\* Longest worklist (rows of the CSV) explored.
MaxRows == 2

NumParents == 6
NumFragments == 8
DnaInitialVolume == 200
RgntInitialVolume == 1000

Letters == <<"A", "B", "C", "D", "E", "F", "G", "H">>

\* chr(n) for the capital letters A..H.
chr(n) == Letters[n - 64]

\* str(n) for n >= 0, as the sequence of its decimal digits.
RECURSIVE str(_)
str(n) == IF n < 10 THEN <<n>> ELSE Append(str(n \div 10), n % 10)

\* int(s) for a non-empty string of decimal digits.
RECURSIVE int(_)
int(s) == IF Len(s) = 1 THEN s[1]
          ELSE int(SubSeq(s, 1, Len(s) - 1)) * 10 + s[Len(s)]

\* s.zfill(2), also the format specification :02d.
zfill(s) == IF Len(s) < 2 THEN <<0>> \o s ELSE s

\* A well string: well[0] is the row, well[1:] the column.
Well(row, col) == [row |-> row, col |-> col]

NoWell == Well("None", <<>>)
NoId == <<>>

reagents == <<"GGMM", "Primers", "PCRMM", "E. coli extract", "TXTLMM", "Water">>

\* The inventory created when no inventory file exists, in insertion order.
load_inventory(kind) ==
    IF kind = "dna"
    THEN [i \in 1..(NumParents * NumFragments) |->
            LET p == ((i - 1) \div NumFragments) + 1
                f == (i - 1) % NumFragments
            IN  [id |-> <<"p", p, "f", f>>,
                 well |-> Well(chr(66 + (p - 1)), zfill(str(f + 3))),
                 volume |-> DnaInitialVolume,
                 history |-> <<>>]]
    ELSE [i \in 1..Len(reagents) |->
            LET p == ((i - 1) \div 3) + 1
                f == ((i - 1) % 3) + 1
            IN  [id |-> <<reagents[i]>>,
                 well |-> Well(chr(68 + (p - 1)), zfill(str(f + 5))),
                 volume |-> RgntInitialVolume,
                 history |-> <<>>]]

\* An inventory file found on disk is loaded as it is; one written with
\* unpadded wells (B3) keeps them.
StoredForms == {"padded", "unpadded"}

StoredInventory(kind, form) ==
    LET inv == load_inventory(kind)
    IN  IF form = "padded" THEN inv
        ELSE [i \in DOMAIN inv |->
                [inv[i] EXCEPT !.well = Well(@.row, str(int(@.col)))]]

get_well_formats_Verbatim(well) == <<well>>

get_well_formats(well) ==
    <<well,
      Well(well.row, str(int(well.col))),
      Well(well.row, zfill(str(int(well.col))))>>

\* The first entry, in insertion order, whose well is one of the formats;
\* 0 when the loop ends without a match.
FindByWell(inv, well_formats) ==
    LET S == {i \in DOMAIN inv :
                \E k \in DOMAIN well_formats : inv[i].well = well_formats[k]}
    IN  IF S = {} THEN 0 ELSE CHOOSE i \in S : \A j \in S : i <= j

\* fragment_id in self.inventory
FindById(inv, id) ==
    LET S == {i \in DOMAIN inv : inv[i].id = id}
    IN  IF S = {} THEN 0 ELSE CHOOSE i \in S : TRUE

\* RgntTracker iterates over df[df['Source_Plate'] == 'Reagents'],
\* DNATracker over every row.
Considered_NoFilter(kind, row) == TRUE

Considered(kind, row) ==
    kind = "rgnt" => row.Source_Plate = "Reagents"

DebitEntry_StaleTotal(e, volume_used) ==
    LET new_vol == e.volume - volume_used
    IN  [e EXCEPT !.volume = new_vol,
                  !.history = Append(@, [key |-> "volume_used",
                                         amount |-> volume_used,
                                         total |-> e.volume])]

DebitEntry_Clamped(e, volume_used) ==
    LET new_vol == IF e.volume < volume_used THEN 0 ELSE e.volume - volume_used
    IN  [e EXCEPT !.volume = new_vol,
                  !.history = Append(@, [key |-> "volume_used",
                                         amount |-> volume_used,
                                         total |-> new_vol])]

DebitEntry(e, volume_used) ==
    LET new_vol == e.volume - volume_used
    IN  [e EXCEPT !.volume = new_vol,
                  !.history = Append(@, [key |-> "volume_used",
                                         amount |-> volume_used,
                                         total |-> new_vol])]

RefillEntry_DefaultVolume(e, volume_added) ==
    LET new_vol == e.volume + 200
    IN  [e EXCEPT !.volume = new_vol,
                  !.history = Append(@, [key |-> "volume_added",
                                         amount |-> volume_added,
                                         total |-> new_vol])]

RefillEntry_NoHistory(e, volume_added) ==
    [e EXCEPT !.volume = e.volume + volume_added]

RefillEntry(e, volume_added) ==
    LET new_vol == e.volume + volume_added
    IN  [e EXCEPT !.volume = new_vol,
                  !.history = Append(@, [key |-> "volume_added",
                                         amount |-> volume_added,
                                         total |-> new_vol])]

\* One iteration of the loop of update_volumes over a considered row.
UpdateRow(inv, row) ==
    LET t == FindByWell(inv, get_well_formats(row.Source_Well))
    IN  IF t # 0
        THEN [inventory |-> [inv EXCEPT ![t] = DebitEntry(@, row.Volume)],
              updates |-> <<[id |-> inv[t].id, well |-> row.Source_Well,
                             amount |-> row.Volume,
                             total |-> inv[t].volume - row.Volume]>>]
        ELSE [inventory |-> inv, updates |-> <<>>]

\* refill_dna / refill_reagent up to the save: the inventory it leaves, the
\* updates it returns, and whether it returns or raises.
Refill(inv, id, well, volume_added) ==
    LET byId == IF id # NoId THEN FindById(inv, id) ELSE 0
        Credit(t) ==
            IF t # 0
            THEN [inventory |-> [inv EXCEPT ![t] = RefillEntry(@, volume_added)],
                  updates |-> <<[id |-> inv[t].id, well |-> inv[t].well,
                                 amount |-> volume_added,
                                 total |-> inv[t].volume + volume_added]>>,
                  outcome |-> "returned"]
            ELSE [inventory |-> inv, updates |-> <<>>, outcome |-> "returned"]
    IN  IF id = NoId /\ well = NoWell THEN Credit(0)
        ELSE IF byId # 0 THEN Credit(byId)
        ELSE IF well = NoWell
             THEN [inventory |-> inv, updates |-> <<>>, outcome |-> "TypeError"]
        ELSE Credit(FindByWell(inv, get_well_formats(well)))

\* ---- print_inventory_report
LowThreshold == 50

\* The characters of an id as code points, the order sorted() compares by.
ord(id) ==
    IF Len(id) = 4 THEN <<112, 48 + id[2], 102, 48 + id[4]>>
    ELSE IF id = <<"GGMM">> THEN <<71, 71, 77, 77>>
    ELSE IF id = <<"Primers">> THEN <<80, 114, 105, 109, 101, 114, 115>>
    ELSE IF id = <<"PCRMM">> THEN <<80, 67, 82, 77, 77>>
    ELSE IF id = <<"E. coli extract">>
         THEN <<69, 46, 32, 99, 111, 108, 105, 32, 101, 120, 116, 114, 97, 99, 116>>
    ELSE IF id = <<"TXTLMM">> THEN <<84, 88, 84, 76, 77, 77>>
    ELSE <<87, 97, 116, 101, 114>>

\* a < b for two strings.
RECURSIVE StrLess(_, _)
StrLess(a, b) ==
    IF b = <<>> THEN FALSE
    ELSE IF a = <<>> THEN TRUE
    ELSE IF a[1] # b[1] THEN a[1] < b[1]
    ELSE StrLess(Tail(a), Tail(b))

\* Insert entry e into a sequence of entries in ascending order of id.
RECURSIVE Insert(_, _)
Insert(e, s) ==
    IF s = <<>> THEN <<e>>
    ELSE IF StrLess(ord(e.id), ord(s[Len(s)].id))
         THEN Append(Insert(e, SubSeq(s, 1, Len(s) - 1)), s[Len(s)])
    ELSE Append(s, e)

\* sorted(self.inventory.items()): the entries in ascending order of id.
RECURSIVE sorted(_)
sorted(inv) ==
    IF inv = <<>> THEN <<>>
    ELSE Insert(inv[Len(inv)], sorted(SubSeq(inv, 1, Len(inv) - 1)))

\* The format specification .1f applied to a whole number of microlitres.
Format1f(v) ==
    [sign |-> IF v < 0 THEN "-" ELSE "", whole |-> IF v < 0 THEN 0 - v ELSE v,
     tenth |-> 0]

print_inventory_report_Unsorted(inv) ==
    [k \in DOMAIN inv |->
        [id |-> inv[k].id, well |-> inv[k].well,
         volume |-> Format1f(inv[k].volume),
         status |-> IF inv[k].volume < LowThreshold THEN "LOW" ELSE "OK"]]

\* The lines print_inventory_report prints between the rules.
print_inventory_report(inv) ==
    LET s == sorted(inv)
    IN  [k \in DOMAIN s |->
            [id |-> s[k].id, well |-> s[k].well,
             volume |-> Format1f(s[k].volume),
             status |-> IF s[k].volume < LowThreshold THEN "LOW" ELSE "OK"]]

\* ---- inputs of the tracker calls
\* D06 is a tracked well of both default inventories (p3f3 and GGMM), named
\* here in both forms; H12 is tracked by neither.
InputWells == {Well("D", <<6>>), Well("D", <<0, 6>>), Well("H", <<1, 2>>)}

\* DNATracker is given the fragment worklist, whose rows carry 5 uL from
\* plate DNA_frags, and a worklist row large enough to bring a well to the
\* low threshold and below zero; it never reads Source_Plate. RgntTracker is given
\* worklists with rows from plate Reagents and rows from other plates.
WorklistRows(kind) ==
    IF kind = "dna"
    THEN {[Source_Plate |-> "DNA_frags", Source_Well |-> w, Volume |-> 5] :
            w \in InputWells}
         \cup {[Source_Plate |-> "DNA_frags", Source_Well |-> Well("D", <<0, 6>>),
                Volume |-> 150]}
    ELSE {[Source_Plate |-> "Reagents", Source_Well |-> w, Volume |-> 160] :
            w \in InputWells}
         \cup {[Source_Plate |-> "DNA_frags", Source_Well |-> Well("D", <<0, 6>>),
                Volume |-> 5]}

\* One amount per tracker, the amount its worklist rows debit.
RefillVolumes(kind) == IF kind = "dna" THEN {5} ELSE {160}

RefillIds(kind) ==
    IF kind = "dna" THEN {NoId, <<"p", 3, "f", 3>>, <<"p", 9, "f", 9>>}
    ELSE {NoId, <<"GGMM">>, <<"DMSO">>}

\* ---- what the calls leave behind for the properties
\* Entries whose history grew between two inventories.
Touched(before, after) ==
    {i \in DOMAIN before : Len(after[i].history) > Len(before[i].history)}

NoCall ==
    [op |-> "none", rows |-> <<>>, id |-> NoId, well |-> NoWell, amount |-> 0,
     outcome |-> "none", updates |-> <<>>, before |-> <<>>, persisted |-> <<>>]

NoSummary ==
    [op |-> "none", well |-> NoWell, plate |-> "", amount |-> 0,
     touched |-> {}, volume_before |-> 0]

\* A completed call that named one well: what it named and what it touched.
Summary(c, inv) ==
    LET T == Touched(c.before, inv)
        vb == IF T = {} THEN 0 ELSE c.before[CHOOSE i \in T : TRUE].volume
    IN  IF c.op = "debit" /\ Len(c.rows) = 1
        THEN [op |-> "debit", well |-> c.rows[1].Source_Well,
              plate |-> c.rows[1].Source_Plate, amount |-> c.rows[1].Volume,
              touched |-> T, volume_before |-> vb]
        ELSE IF c.op = "credit" /\ c.outcome = "returned" /\ c.id = NoId
                /\ c.well # NoWell
        THEN [op |-> "credit", well |-> c.well, plate |-> "",
              amount |-> c.amount, touched |-> T, volume_before |-> vb]
        ELSE NoSummary

TrackerInit ==
    /\ tracker_kind \in {"dna", "rgnt"}
    /\ \E form \in StoredForms :
           /\ inventory = StoredInventory(tracker_kind, form)
           /\ inventory_file = inventory
    /\ pcTracker = "idle"
    /\ call = NoCall
    /\ prev = NoSummary
    /\ other = <<>>
    /\ nOps = 0

\* update_volumes: the worklist is read and the loop begins.
UpdateVolumesBegin ==
    /\ pcTracker = "idle"
    /\ nOps < MaxOps
    /\ prev' = IF call.op = "none" THEN NoSummary ELSE Summary(call, inventory)
    /\ call' = [NoCall EXCEPT !.op = "debit", !.outcome = "running",
                              !.before = inventory,
                              !.persisted = inventory_file]
    /\ pcTracker' = "update_volumes"
    /\ UNCHANGED <<tracker_kind, inventory, inventory_file, other, nOps>>
    /\ UNCHANGED vars
    /\ UNCHANGED planVars

UpdateVolumesRow_AbortUnmatched(row) ==
    /\ pcTracker = "update_volumes"
    /\ Len(call.rows) < MaxRows
    /\ LET r == IF Considered(tracker_kind, row)
                THEN UpdateRow(inventory, row)
                ELSE [inventory |-> inventory, updates |-> <<>>]
           unmatched == Considered(tracker_kind, row) /\ r.updates = <<>>
       IN  /\ inventory' = r.inventory
           /\ call' = [call EXCEPT !.rows = Append(@, row),
                                   !.updates = @ \o r.updates,
                                   !.outcome = IF unmatched THEN "KeyError" ELSE @]
           /\ pcTracker' = IF unmatched THEN "idle" ELSE pcTracker
           /\ nOps' = IF unmatched THEN nOps + 1 ELSE nOps
    /\ UNCHANGED <<tracker_kind, inventory_file, prev, other>>
    /\ UNCHANGED vars
    /\ UNCHANGED planVars

\* update_volumes: one row of the worklist.
UpdateVolumesRow(row) ==
    /\ pcTracker = "update_volumes"
    /\ Len(call.rows) < MaxRows
    /\ LET r == IF Considered(tracker_kind, row)
                THEN UpdateRow(inventory, row)
                ELSE [inventory |-> inventory, updates |-> <<>>]
       IN  /\ inventory' = r.inventory
           /\ call' = [call EXCEPT !.rows = Append(@, row),
                                   !.updates = @ \o r.updates]
    /\ UNCHANGED <<tracker_kind, inventory_file, pcTracker, prev, other, nOps>>
    /\ UNCHANGED vars
    /\ UNCHANGED planVars

\* An inventory file just opened for writing: open(..., 'w') has emptied it
\* and json.dump has not written yet.
Truncated == <<>>

\* update_volumes: the loop is over; save_inventory is entered and opens
\* the inventory file for writing.
UpdateVolumesSave ==
    /\ pcTracker = "update_volumes"
    /\ inventory_file' = Truncated
    /\ pcTracker' = "save_inventory"
    /\ UNCHANGED <<tracker_kind, inventory, call, prev, other, nOps>>
    /\ UNCHANGED vars
    /\ UNCHANGED planVars

save_inventory_Stale ==
    /\ pcTracker = "save_inventory"
    /\ inventory_file' = call.persisted
    /\ call' = [call EXCEPT !.outcome = "returned"]
    /\ pcTracker' = "idle"
    /\ nOps' = nOps + 1
    /\ UNCHANGED <<tracker_kind, inventory, prev, other>>
    /\ UNCHANGED vars
    /\ UNCHANGED planVars

\* save_inventory: json.dump writes the inventory, the file is closed and
\* the calling method returns its updates.
save_inventory ==
    /\ pcTracker = "save_inventory"
    /\ inventory_file' = inventory
    /\ call' = [call EXCEPT !.outcome = "returned"]
    /\ pcTracker' = "idle"
    /\ nOps' = nOps + 1
    /\ UNCHANGED <<tracker_kind, inventory, prev, other>>
    /\ UNCHANGED vars
    /\ UNCHANGED planVars

\* refill_dna / refill_reagent on the way to returning normally: the entry
\* is credited, save_inventory is entered and opens the inventory file.
RefillReturns(id, well, volume_added) ==
    /\ pcTracker = "idle"
    /\ nOps < MaxOps
    /\ LET r == Refill(inventory, id, well, volume_added)
       IN  /\ r.outcome = "returned"
           /\ inventory' = r.inventory
           /\ inventory_file' = Truncated
           /\ call' = [NoCall EXCEPT !.op = "credit", !.id = id, !.well = well,
                                     !.amount = volume_added,
                                     !.outcome = "running",
                                     !.updates = r.updates,
                                     !.before = inventory,
                              !.persisted = inventory_file]
    /\ prev' = IF call.op = "none" THEN NoSummary ELSE Summary(call, inventory)
    /\ pcTracker' = "save_inventory"
    /\ UNCHANGED <<tracker_kind, other, nOps>>
    /\ UNCHANGED vars
    /\ UNCHANGED planVars

\* refill_dna / refill_reagent raising before it changes or saves anything.
RefillRaises(id, well, volume_added) ==
    /\ pcTracker = "idle"
    /\ nOps < MaxOps
    /\ LET r == Refill(inventory, id, well, volume_added)
       IN  /\ r.outcome # "returned"
           /\ call' = [NoCall EXCEPT !.op = "credit", !.id = id, !.well = well,
                                     !.amount = volume_added,
                                     !.outcome = r.outcome,
                                     !.before = inventory,
                              !.persisted = inventory_file]
    /\ prev' = IF call.op = "none" THEN NoSummary ELSE Summary(call, inventory)
    /\ nOps' = nOps + 1
    /\ UNCHANGED <<tracker_kind, inventory, inventory_file, pcTracker, other>>
    /\ UNCHANGED vars
    /\ UNCHANGED planVars

\* print_inventory_report, as manage_dna.py calls it last before the process
\* exits: it prints and leaves the inventory and its file alone. The printed
\* lines are kept in call.
PrintReport ==
    /\ pcTracker = "idle"
    /\ nOps < MaxOps
    /\ call' = [NoCall EXCEPT !.op = "report", !.outcome = "returned",
                              !.updates = print_inventory_report(inventory),
                              !.before = inventory,
                              !.persisted = inventory_file]
    /\ pcTracker' = "exit"
    /\ nOps' = nOps + 1
    /\ UNCHANGED <<tracker_kind, inventory, inventory_file, prev, other>>
    /\ UNCHANGED vars
    /\ UNCHANGED planVars

LedgerInit ==
    /\ ControllerInit /\ TrackerInit /\ FindUnused /\ WorklistUnused
    /\ LayoutUnused

LedgerNext ==
    \/ UpdateVolumesBegin
    \/ \E row \in WorklistRows(tracker_kind) : UpdateVolumesRow(row)
    \/ UpdateVolumesSave
    \/ save_inventory
    \/ \E id \in RefillIds(tracker_kind), well \in InputWells \cup {NoWell},
          v \in RefillVolumes(tracker_kind) : RefillReturns(id, well, v)
    \/ \E id \in RefillIds(tracker_kind), well \in InputWells \cup {NoWell},
          v \in RefillVolumes(tracker_kind) : RefillRaises(id, well, v)
    \/ PrintReport

SpecLedger == LedgerInit /\ [][LedgerNext]_trackerVars

\* ---- a second tracker instance on the same inventory file
\* Another process (manage_dna.py, or another cycle of the controller)
\* constructs its own tracker: load_inventory reads the file once, here.
OtherConstruct ==
    /\ pcTracker = "idle"
    /\ other = <<>>
    /\ other' = inventory_file
    /\ UNCHANGED <<tracker_kind, inventory, inventory_file, pcTracker, call, prev,
                   nOps>>
    /\ UNCHANGED vars
    /\ UNCHANGED planVars

\* A whole refill call of the second instance, its save included, issued
\* while no call of the first instance is in flight.
OtherRefill(id, well, volume_added) ==
    /\ pcTracker = "idle"
    /\ other # <<>>
    /\ nOps < MaxOps
    /\ LET r == Refill(other, id, well, volume_added)
       IN  /\ r.outcome = "returned"
           /\ other' = r.inventory
           /\ inventory_file' = r.inventory
           /\ call' = [NoCall EXCEPT !.op = "other_credit", !.id = id,
                                     !.well = well, !.amount = volume_added,
                                     !.outcome = "returned",
                                     !.updates = r.updates,
                                     !.before = other,
                                     !.persisted = inventory_file]
    /\ prev' = NoSummary
    /\ nOps' = nOps + 1
    /\ UNCHANGED <<tracker_kind, inventory, pcTracker>>
    /\ UNCHANGED vars
    /\ UNCHANGED planVars

InstancesNext ==
    \/ LedgerNext
    \/ OtherConstruct
    \/ \E id \in RefillIds(tracker_kind), well \in InputWells \cup {NoWell},
          v \in RefillVolumes(tracker_kind) : OtherRefill(id, well, v)

SpecInstances == LedgerInit /\ [][InstancesNext]_trackerVars

\* ---- manage_dna.py --refill
\* --threshold: the default, and another value a user may pass.
Thresholds == {LowThreshold, 2 * LowThreshold}

\* main with --refill: DNATracker has no method bulk_refill, so the call
\* raises AttributeError before anything is refilled; the except clause
\* prints the error and main returns 1 without printing the report.
BulkRefillRaises(threshold) ==
    /\ pcTracker = "idle"
    /\ tracker_kind = "dna"
    /\ nOps < MaxOps
    /\ call' = [NoCall EXCEPT !.op = "bulk_refill",
                              !.outcome = "AttributeError",
                              !.amount = threshold,
                              !.before = inventory,
                              !.persisted = inventory_file]
    /\ pcTracker' = "exit"
    /\ nOps' = nOps + 1
    /\ UNCHANGED <<tracker_kind, inventory, inventory_file, prev, other>>
    /\ UNCHANGED vars
    /\ UNCHANGED planVars

ManageNext ==
    \/ LedgerNext
    \/ \E threshold \in Thresholds : BulkRefillRaises(threshold)

SpecManage == LedgerInit /\ [][ManageNext]_trackerVars

\* ------------------------------------------------ find_sequence_fragments
\* find_sequence_fragments of seq_to_pipetting_steps.py, one loop iteration
\* per step; generate_assay_plate.py has the same loop and returns result
\* alone.

\* Longest fragment string of the library explored.
MaxFragLen == 2

\* Longest target sequence explored.
MaxSeqLen == 3

Bases == {"A", "C"}

Strings(n) == UNION {[1..k -> Bases] : k \in 0..n}

startswith_Overshoot(s, fragment, at) ==
    \A k \in 1..Len(fragment) : at + k <= Len(s) => s[at + k] = fragment[k]

\* sequence.startswith(fragment, at)
startswith(s, fragment, at) ==
    /\ at + Len(fragment) <= Len(s)
    /\ \A k \in 1..Len(fragment) : s[at + k] = fragment[k]

\* The fragment CSV as csv.reader yields it after the header: row[0] is the
\* parent name, row[1:] its fragments; a cell may be empty. Parent p7 has no
\* wells in well_dict.
Libraries ==
    {<<[name |-> <<"p", 1>>, frags |-> <<x, y>>],
       [name |-> <<"p", q>>, frags |-> <<z>>]>> :
        x \in Strings(MaxFragLen), y \in Strings(MaxFragLen),
        z \in Strings(MaxFragLen), q \in {2, 7}}

Matches_WithEmpty(d, s, at) ==
    {m \in UNION {{<<p, f>> : f \in DOMAIN d[p].frags} : p \in DOMAIN d} :
        startswith(s, d[m[1]].frags[m[2]], at)}

\* The (p, f) the two for loops visit with a non-empty fragment that the
\* sequence has at offset at.
Matches(d, s, at) ==
    {m \in UNION {{<<p, f>> : f \in DOMAIN d[p].frags} : p \in DOMAIN d} :
        /\ d[m[1]].frags[m[2]] # <<>>
        /\ startswith(s, d[m[1]].frags[m[2]], at)}

FirstMatch_Longest(d, s, at) ==
    CHOOSE m \in Matches(d, s, at) :
        \A o \in Matches(d, s, at) :
            \/ Len(d[m[1]].frags[m[2]]) > Len(d[o[1]].frags[o[2]])
            \/ /\ Len(d[m[1]].frags[m[2]]) = Len(d[o[1]].frags[o[2]])
               /\ m[1] < o[1] \/ (m[1] = o[1] /\ m[2] <= o[2])

\* The one the loops reach first: rows in file order, cells left to right.
FirstMatch(d, s, at) ==
    CHOOSE m \in Matches(d, s, at) :
        \A o \in Matches(d, s, at) :
            m[1] < o[1] \/ (m[1] = o[1] /\ m[2] <= o[2])

\* f"{p}f{f}" with f counted from 0.
FragmentId(d, m) == d[m[1]].name \o <<"f", m[2] - 1>>

in_well_dict(id) == id[2] \in 1..NumParents /\ id[4] \in 0..(NumFragments - 1)

well_dict_FromColumnOne(id) == Well(chr(66 + (id[2] - 1)), str(id[4] + 1))

\* well_dict: p1f0 -> B3 ... p6f7 -> G10.
well_dict(id) ==
    Well(chr(66 + (id[2] - 1)), str(id[4] + 3))

\* The list index built from result: ids without a well are only warned of.
RECURSIVE WellsOf(_)
WellsOf(ids) ==
    IF ids = <<>> THEN <<>>
    ELSE LET rest == WellsOf(SubSeq(ids, 1, Len(ids) - 1))
             i == ids[Len(ids)]
         IN  IF in_well_dict(i) THEN Append(rest, well_dict(i)) ELSE rest

NoReturn == [error |-> "none", position |-> 0, result |-> <<>>, index |-> <<>>]

FindInit ==
    /\ data \in Libraries
    /\ sequence \in Strings(MaxSeqLen)
    /\ start = 0
    /\ result = <<>>
    /\ pcFind = "loop"
    /\ returned = NoReturn

\* One iteration of the while loop that finds a fragment.
FindMatch ==
    /\ pcFind = "loop"
    /\ start < Len(sequence)
    /\ Matches(data, sequence, start) # {}
    /\ LET m == FirstMatch(data, sequence, start)
       IN  /\ result' = Append(result, FragmentId(data, m))
           /\ start' = start + Len(data[m[1]].frags[m[2]])
    /\ UNCHANGED <<data, sequence, pcFind, returned>>
    /\ UNCHANGED <<vars, trackerVars, worklistVars, layoutVars>>

FindRaise_Partial ==
    /\ pcFind = "loop"
    /\ start < Len(sequence)
    /\ Matches(data, sequence, start) = {}
    /\ pcFind' = "raised"
    /\ returned' = [NoReturn EXCEPT !.error = "ValueError", !.position = start,
                                    !.result = result,
                                    !.index = WellsOf(result)]
    /\ UNCHANGED <<data, sequence, start, result>>
    /\ UNCHANGED <<vars, trackerVars, worklistVars, layoutVars>>

\* One iteration that finds none: ValueError with the position; the caller
\* receives no result.
FindRaise ==
    /\ pcFind = "loop"
    /\ start < Len(sequence)
    /\ Matches(data, sequence, start) = {}
    /\ pcFind' = "raised"
    /\ returned' = [NoReturn EXCEPT !.error = "ValueError", !.position = start]
    /\ UNCHANGED <<data, sequence, start, result>>
    /\ UNCHANGED <<vars, trackerVars, worklistVars, layoutVars>>

\* The loop is over: the wells are looked up and (result, index) returned.
FindReturn ==
    /\ pcFind = "loop"
    /\ start >= Len(sequence)
    /\ pcFind' = "returned"
    /\ returned' = [NoReturn EXCEPT !.error = "", !.result = result,
                                    !.index = WellsOf(result)]
    /\ UNCHANGED <<data, sequence, start, result>>
    /\ UNCHANGED <<vars, trackerVars, worklistVars, layoutVars>>

FindNext == FindMatch \/ FindRaise \/ FindReturn

FindScriptInit ==
    /\ ControllerInit /\ TrackerUnused /\ WorklistUnused /\ LayoutUnused
    /\ FindInit

SpecFind == FindScriptInit /\ [][FindNext]_findVars

\* ------------------------------------------- seq_to_pipetting_steps.py
\* main and write_worklist: the lists of wells of the sequences of one run
\* are turned into the rows of fragment_assembly_worklist.csv.

\* The most sequences a run is given here.
MaxTargets == 5

\* write_worklist: "if len(wells) != 8".
RequiredFragments == 8

\* format_well: B3 -> B03, G10 -> G10.
format_well(well) ==
    Well(well.row, IF Len(well.col) = 1 THEN <<0>> \o well.col ELSE well.col)

\* get_destination_well: the literal table of destinations.
destinations ==
    (1 :> Well("A", <<0, 1>>)) @@ (2 :> Well("C", <<0, 1>>))
                               @@ (3 :> Well("E", <<0, 1>>))

get_destination_well(seq_num) == destinations[seq_num]

\* 'Volume': '5'.
WorklistVolume == 5

\* One row of the worklist.
WorklistRow(index, well, destination_well) ==
    [Index |-> zfill(str(index)),
     Source_Plate |-> "DNA_frags",
     Source_Well |-> format_well(well),
     Destination_Plate |-> "Rxn_plate",
     Destination_Well |-> destination_well,
     Volume |-> str(WorklistVolume),
     Pre_Aspirate_Mix_Volume |-> str(0),
     Post_Dispense_Mix_Volume |-> str(0)]

RowsOf_Reversed(wells, index, destination_well) ==
    [j \in 1..Len(wells) |->
        WorklistRow(index + j - 1, wells[Len(wells) + 1 - j], destination_well)]

\* The inner loop: the rows of one sequence, index counting on from 'index'.
RowsOf(wells, index, destination_well) ==
    [j \in 1..Len(wells) |->
        WorklistRow(index + j - 1, wells[j], destination_well)]

NoWritten ==
    [pc |-> "main", error |-> "none", seq_num |-> 0, got |-> 0,
     rows |-> <<>>, code |-> -1]

\* The outer loop of write_worklist from sequence seq_num on, with the rows
\* collected so far: the count of wells is checked first, then the
\* destination is looked up, then the rows are appended.
RECURSIVE BuildRows(_, _, _, _)
BuildRows(wells_list, seq_num, rows, index) ==
    IF seq_num > Len(wells_list)
    THEN [NoWritten EXCEPT !.pc = "returned", !.error = "", !.rows = rows]
    ELSE IF Len(wells_list[seq_num]) # RequiredFragments
    THEN [NoWritten EXCEPT !.pc = "raised", !.error = "ValueError",
                           !.seq_num = seq_num,
                           !.got = Len(wells_list[seq_num])]
    ELSE IF seq_num \notin DOMAIN destinations
    THEN [NoWritten EXCEPT !.pc = "raised", !.error = "KeyError",
                           !.seq_num = seq_num]
    ELSE BuildRows(wells_list, seq_num + 1,
                   rows \o RowsOf(wells_list[seq_num], index,
                                  get_destination_well(seq_num)),
                   index + Len(wells_list[seq_num]))

\* write_worklist up to the point where the file is opened.
write_worklist(wells_list) == BuildRows(wells_list, 1, <<>>, 1)

\* fragment_assembly_worklist.csv: absent, or a header line and rows.
NoFile == [exists |-> FALSE, rows |-> <<>>]

\* The first m fragment ids of the plate map, in its order.
MappedIds(m) ==
    [i \in 1..m |-> <<"p", ((i - 1) % NumParents) + 1,
                      "f", (i - 1) % NumFragments>>]

\* An id of a library row that the plate map does not have.
UnmappedId == <<"p", NumParents + 1, "f", 0>>

\* The fragment lists find_sequence_fragments returns here: one fewer than,
\* exactly, and one more than the required number of fragments, and lists
\* that contain one fragment without a well.
Tilings ==
    {MappedIds(RequiredFragments - 1), MappedIds(RequiredFragments),
     MappedIds(RequiredFragments + 1),
     Append(MappedIds(RequiredFragments - 1), UnmappedId),
     Append(MappedIds(RequiredFragments), UnmappedId)}

\* main after its loop over the sequences: all_fragments and all_wells hold
\* what find_sequence_fragments returned for each sequence.  There is at
\* least one sequence: read_sequence_file raises on an empty file.
WorklistInit ==
    /\ \E n \in 1..MaxTargets : all_fragments \in [1..n -> Tilings]
    /\ all_wells = [i \in DOMAIN all_fragments |-> WellsOf(all_fragments[i])]
    /\ written = NoWritten
    /\ worklist_file = NoFile

\* write_worklist returns: the file is written with all the rows.
WriteWorklistReturns ==
    /\ written.pc = "main"
    /\ write_worklist(all_wells).error = ""
    /\ written' = write_worklist(all_wells)
    /\ worklist_file' = [exists |-> TRUE, rows |-> written'.rows]
    /\ UNCHANGED <<all_fragments, all_wells>>
    /\ UNCHANGED <<vars, trackerVars, findVars, layoutVars>>

\* write_worklist raises inside its loop: the file is not opened.
WriteWorklistRaises ==
    /\ written.pc = "main"
    /\ write_worklist(all_wells).error # ""
    /\ written' = write_worklist(all_wells)
    /\ UNCHANGED <<all_fragments, all_wells, worklist_file>>
    /\ UNCHANGED <<vars, trackerVars, findVars, layoutVars>>

\* main ends: exit status 0, or 1 from the except clause.
MainExit ==
    /\ written.pc \in {"returned", "raised"}
    /\ written' = [written EXCEPT !.pc = "exit",
                       !.code = IF written.pc = "returned" THEN 0 ELSE 1]
    /\ UNCHANGED <<all_fragments, all_wells, worklist_file>>
    /\ UNCHANGED <<vars, trackerVars, findVars, layoutVars>>

WorklistNext == WriteWorklistReturns \/ WriteWorklistRaises \/ MainExit

WorklistScriptInit ==
    /\ ControllerInit /\ TrackerUnused /\ FindUnused /\ LayoutUnused
    /\ WorklistInit

SpecWorklist == WorklistScriptInit /\ [][WorklistNext]_worklistVars

\* ---------------------------------------------- generate_assay_plate.py
\* main, get_parent_sequence and create_plate_layout.

\* rows = 'ACE': the rows of the three replicates.
plate_rows == <<"A", "C", "E">>

\* sugars = ['glu', 'xyl', 'man'].
sugars == <<"glu", "xyl", "man">>

\* The width of a sugar block: sugar_col_start = (sugar_idx * 3) + 1, and
\* range(3) negative controls.
BlockWidth == 3

\* sorted(fragments, key=lambda x: int(x[3:])): a stable sort by the fragment
\* number of the id.
RECURSIVE SortByFragment(_)
SortByFragment(ids) ==
    IF ids = <<>> THEN <<>>
    ELSE LET init == SortByFragment(SubSeq(ids, 1, Len(ids) - 1))
             x == ids[Len(ids)]
             k == Cardinality({i \in DOMAIN init : init[i][4] <= x[4]})
         IN  SubSeq(init, 1, k) \o <<x>> \o SubSeq(init, k + 1, Len(init))

\* get_parent_sequence: the parent digits (fragment[1:2]) of the sorted ids.
get_parent_sequence(fragments) ==
    LET sorted_fragments == SortByFragment(fragments)
    IN  [i \in DOMAIN sorted_fragments |-> sorted_fragments[i][2]]

\* The two kinds of label: "<parent>-R<rep>-<sugar>" and "N-<sugar>-R<rep>".
SampleLabel(parent, rep, sugar) ==
    [kind |-> "sample", parent |-> parent, rep |-> rep, sugar |-> sugar]

ControlLabel(sugar, rep) ==
    [kind |-> "N", parent |-> <<>>, rep |-> rep, sugar |-> sugar]

sugar_col_start(sugar_idx) == (sugar_idx * BlockWidth) + 1

\* The assignments "layout[well] = ..." of one sugar block in the order in
\* which the loops make them: replicate rows, within a row the sequences in
\* the order of sorted(sequences.keys()), then the negative controls.  The
\* keys are str(1), str(2), ...: up to nine sequences their sorted order is
\* the numeric one.
SampleAssignments(sequences, sugar_idx) ==
    LET n == Len(sequences)
    IN  [i \in 1..(Len(plate_rows) * n) |->
            LET rep_idx == ((i - 1) \div n) + 1
                seq_idx == (i - 1) % n
            IN  [well |-> Well(plate_rows[rep_idx],
                               str(sugar_col_start(sugar_idx) + seq_idx)),
                 label |-> SampleLabel(get_parent_sequence(sequences[seq_idx + 1]),
                                       rep_idx, sugars[sugar_idx + 1])]]

ControlAssignments(sugar_idx) ==
    [k \in 1..BlockWidth |->
        [well |-> Well("G", str(sugar_col_start(sugar_idx) + (k - 1))),
         label |-> ControlLabel(sugars[sugar_idx + 1], k)]]

Assignments(sequences) ==
    LET Block(sugar_idx) ==
            SampleAssignments(sequences, sugar_idx) \o ControlAssignments(sugar_idx)
    IN  Block(0) \o Block(1) \o Block(2)

\* The last element of a non-empty set of numbers.
Last(S) == CHOOSE i \in S : \A j \in S : j <= i

\* create_plate_layout: the dictionary after all the assignments; a later
\* assignment to the same well replaces the earlier one.
create_plate_layout(sequences) ==
    LET a == Assignments(sequences)
    IN  [w \in {a[i].well : i \in DOMAIN a} |->
            a[Last({i \in DOMAIN a : a[i].well = w})].label]

\* Fragment lists of the sequences of a run: ids in ascending and in mixed
\* fragment order, of one and of several parents.
LayoutTilings ==
    {<<<<"p", 1, "f", 0>>, <<"p", 1, "f", 1>>>>,
     <<<<"p", 2, "f", 1>>, <<"p", 1, "f", 0>>>>,
     <<<<"p", 3, "f", 0>>, <<"p", 2, "f", 0>>, <<"p", 1, "f", 1>>>>}

\* main after its loop: sequence_fragments[str(i)] for the sequences of the
\* file, of which there is at least one.
LayoutInit ==
    /\ \E n \in 1..MaxTargets : sequence_fragments \in [1..n -> LayoutTilings]
    /\ plate_fragments = <<>>
    /\ layout = <<>>
    /\ pcLayout = "main"

\* write_results: the layout is created and dumped to the output file.
WriteResults ==
    /\ pcLayout = "main"
    /\ layout' = create_plate_layout(sequence_fragments)
    /\ pcLayout' = "written"
    /\ UNCHANGED <<plate_fragments, sequence_fragments>>
    /\ UNCHANGED <<vars, trackerVars, findVars, worklistVars>>

\* main prints its last line and ends.
LayoutExit ==
    /\ pcLayout = "written"
    /\ pcLayout' = "exit"
    /\ UNCHANGED <<plate_fragments, sequence_fragments, layout>>
    /\ UNCHANGED <<vars, trackerVars, findVars, worklistVars>>

LayoutNext == WriteResults \/ LayoutExit

LayoutScriptInit ==
    /\ ControllerInit /\ TrackerUnused /\ FindUnused /\ WorklistUnused
    /\ LayoutInit

SpecLayout == LayoutScriptInit /\ [][LayoutNext]_layoutVars

\* ---- generate_assay_plate.py: its own find_sequence_fragments
\* The inner for loop from cell k on: the number of the first cell that is
\* non-empty and that the sequence has at offset at, or 0 (found stays
\* False).
RECURSIVE ScanCells(_, _, _, _)
ScanCells(frags, s, at, k) ==
    IF k > Len(frags) THEN 0
    ELSE IF frags[k] # <<>> /\ startswith(s, frags[k], at) THEN k
    ELSE ScanCells(frags, s, at, k + 1)

RECURSIVE ScanRows_LastRowFirst(_, _, _, _)
ScanRows_LastRowFirst(d, s, at, p) ==
    IF p > Len(d) THEN <<0, 0>>
    ELSE LET q == Len(d) + 1 - p
             k == ScanCells(d[q].frags, s, at, 1)
         IN  IF k # 0 THEN <<q, k>> ELSE ScanRows_LastRowFirst(d, s, at, p + 1)

\* The outer for loop from row p on: "if found: break".
RECURSIVE ScanRows(_, _, _, _)
ScanRows(d, s, at, p) ==
    IF p > Len(d) THEN <<0, 0>>
    ELSE LET k == ScanCells(d[p].frags, s, at, 1)
         IN  IF k # 0 THEN <<p, k>> ELSE ScanRows(d, s, at, p + 1)

\* The while loop from offset at on, with the ids found so far.
RECURSIVE PlateLoop(_, _, _, _)
PlateLoop(d, s, at, res) ==
    IF ~(at < Len(s))
    THEN [error |-> "", position |-> 0, result |-> res]
    ELSE LET m == ScanRows(d, s, at, 1)
         IN  IF m = <<0, 0>>
             THEN [error |-> "ValueError", position |-> at, result |-> <<>>]
             ELSE PlateLoop(d, s, at + Len(d[m[1]].frags[m[2]]),
                            Append(res, d[m[1]].name \o <<"f", m[2] - 1>>))

\* generate_assay_plate.find_sequence_fragments(sequence, csv_file_path, i).
plate_find_sequence_fragments(s, d) == PlateLoop(d, s, 0, <<>>)

\* One generation cycle: after seq_to_pipetting_steps.py has decomposed the
\* sequence, generate_assay_plate.py decomposes the same sequence with the
\* same fragment CSV.
PlateFind ==
    /\ pcFind \in {"returned", "raised"}
    /\ pcLayout = "unused"
    /\ plate_fragments' = plate_find_sequence_fragments(sequence, data)
    /\ pcLayout' = "found"
    /\ UNCHANGED <<sequence_fragments, layout>>
    /\ UNCHANGED <<vars, trackerVars, findVars, worklistVars>>

BothNext == FindNext \/ PlateFind

SpecBoth == FindScriptInit /\ [][BothNext]_<<findVars, layoutVars>>

\* ---- one generation cycle: the worklist and the DNA debit
\* pd.read_csv and the loop head of update_volumes: well = row['Source_Well'],
\* volume_used = float(row['Volume']).
ReadWorklistRow(r) ==
    [Source_Plate |-> r.Source_Plate, Source_Well |-> r.Source_Well,
     Volume |-> int(r.Volume)]

\* The fragment lists of a cycle: the diagonal of the plate map, one fragment
\* eight times, both with the required number of fragments; a list with a
\* ninth fragment that has no well; a list one fragment short.
CycleTilings ==
    {MappedIds(RequiredFragments),
     [i \in 1..RequiredFragments |-> <<"p", NumParents, "f", NumFragments - 1>>],
     Append(MappedIds(RequiredFragments), UnmappedId),
     MappedIds(RequiredFragments - 1)}

\* generate_lab_files after the sequences have been decomposed: the DNA
\* inventory is as a file on disk has it, in either well spelling.
CycleInit ==
    /\ ControllerInit /\ FindUnused /\ LayoutUnused
    /\ \E n \in 1..MaxTargets : all_fragments \in [1..n -> CycleTilings]
    /\ all_wells = [i \in DOMAIN all_fragments |-> WellsOf(all_fragments[i])]
    /\ written = NoWritten
    /\ worklist_file = NoFile
    /\ tracker_kind = "dna"
    /\ \E form \in StoredForms :
           /\ inventory = StoredInventory("dna", form)
           /\ inventory_file = inventory
    /\ pcTracker = "idle"
    /\ call = NoCall
    /\ prev = NoSummary
    /\ other = <<>>
    /\ nOps = 0

\* dna_tracker.update_volumes(fragment_assembly_worklist.csv) after the
\* worklist script has ended with status 0: the file is read.
CycleDebitBegin ==
    /\ written.pc = "exit"
    /\ written.code = 0
    /\ pcTracker = "idle"
    /\ nOps = 0
    /\ call' = [NoCall EXCEPT !.op = "debit", !.outcome = "running",
                              !.before = inventory,
                              !.persisted = inventory_file]
    /\ pcTracker' = "update_volumes"
    /\ UNCHANGED <<tracker_kind, inventory, inventory_file, prev, other, nOps>>
    /\ UNCHANGED <<vars, findVars, worklistVars, layoutVars>>

\* One turn of "for _, row in df.iterrows()": the next row of the file.
CycleDebitRow ==
    /\ pcTracker = "update_volumes"
    /\ Len(call.rows) < Len(worklist_file.rows)
    /\ LET row == ReadWorklistRow(worklist_file.rows[Len(call.rows) + 1])
           r == UpdateRow(inventory, row)
       IN  /\ inventory' = r.inventory
           /\ call' = [call EXCEPT !.rows = Append(@, row),
                                   !.updates = @ \o r.updates]
    /\ UNCHANGED <<tracker_kind, inventory_file, pcTracker, prev, other, nOps>>
    /\ UNCHANGED <<vars, findVars, worklistVars, layoutVars>>

\* The loop is over: save_inventory() and return updates.
CycleDebitSave ==
    /\ pcTracker = "update_volumes"
    /\ Len(call.rows) = Len(worklist_file.rows)
    /\ inventory_file' = inventory
    /\ call' = [call EXCEPT !.outcome = "returned"]
    /\ pcTracker' = "exit"
    /\ nOps' = nOps + 1
    /\ UNCHANGED <<tracker_kind, inventory, prev, other>>
    /\ UNCHANGED <<vars, findVars, worklistVars, layoutVars>>

CycleNext ==
    WorklistNext \/ CycleDebitBegin \/ CycleDebitRow \/ CycleDebitSave

SpecCycle == CycleInit /\ [][CycleNext]_<<worklistVars, trackerVars>>

\* ------------------------------------------------------------------ claims
\* A handler is between stopping one observer and starting the other.
HandoverInProgress ==
    \/ pcSeq \in {"returned_true", "start_plate"}
    \/ pcPlate = "restart_seq"

\* The phases in which an experiment is under way.
WorkingPhases == {"SEQUENCE_RECEIVED", "EXPERIMENTING", "PROCESSING"}

\* C1: in every reachable state the sequence-file observer and the
\* plate-data observer are never both active.
C1_MutualExclusion == ~(SeqActive /\ PlateActive)

\* C1 witness: the second experiment cycle has handed over to plate
\* monitoring (both handovers of the first cycle are behind).
C1_Witness == PlateActive /\ ~SeqActive /\ dna_inventory_file = 2

HandoverOrder ==
    /\ (~PlateActive /\ PlateActive') => (~SeqActive /\ ~SeqActive')
    /\ (~SeqActive /\ SeqActive') => (~PlateActive /\ ~PlateActive')

AllowedEdges ==
    {<<"IDLE", "SEQUENCE_RECEIVED">>, <<"SEQUENCE_RECEIVED", "EXPERIMENTING">>,
     <<"EXPERIMENTING", "PROCESSING">>, <<"PROCESSING", "IDLE">>}
    \cup {<<s, "ERROR">> : s \in LabState}

\* C4: every change of the phase follows Idle -> SequenceReceived ->
\* Experimenting -> Processing -> Idle, or leads to Error.
C4_Claim == [][status' # status => <<status, status'>> \in AllowedEdges]_vars

\* C5: a sequence-file notification starts a generation cycle only when the
\* content hash differs from the hash of the last processed sequence content.
C5_Claim ==
    [][(pcSeq = "idle" /\ pcSeq' = "worklist")
          => get_file_hash(seq_file) # last_seq_hash]_vars

\* C6: across the whole run a plate-data notification triggers analysis and
\* transfer only if the content hash differs from the hash of the last plate
\* data that was processed.
C6_Claim ==
    [][(pcPlate = "idle" /\ pcPlate' = "analyze")
          => current_hash' # last_plate_hash]_vars

\* C7: if a step of a generation cycle fails, the phase becomes Error and the
\* active subscriptions are those of the start of the cycle.
C7_Claim ==
    [][(pcSeq \in GenSteps /\ pcSeq' = "idle")
          => (status' = "ERROR" /\ ActiveSet' = cycle0.subs)]_vars

\* C8: when a plate-data change is processed and analysis and transfer both
\* succeed, plate monitoring is stopped, sequence monitoring is resumed and
\* the phase becomes Idle.
C8_Claim ==
    [][(pcPlate = "restart_seq" /\ pcPlate' = "idle" /\ transfer_ok = "True")
          => (~PlateActive' /\ SeqActive' /\ status' = "IDLE")]_vars

\* The run of process_and_transfer that just ended had a failed analysis,
\* connection or upload.
PlateRunFailed == pt_result \in {"None", "False"} \/ transfer_ok = "False"

\* Analysis is started only by a notification for the plate-data file itself
\* (never by the controller's own output).
NoAutomaticRetry ==
    (pcPlate = "idle" /\ pcPlate' = "analyze") => Head(plate_queue) = PlatePath

\* C9: if the analysis or the transfer (connection or upload) fails, the
\* orchestrator enters Error instead of resuming sequence-file monitoring,
\* and the failed plate data is not retried automatically.
C9_Claim ==
    [][/\ (pcPlate # "idle" /\ pcPlate' = "idle" /\ PlateRunFailed')
            => (status' = "ERROR" /\ ~SeqActive')
       /\ NoAutomaticRetry]_vars

\* C10: in every generation cycle the DNA and reagent debits of the cycle's
\* worklists are persisted before the cycle reports success and before
\* plate-data monitoring is started.
C10_DebitBeforeSuccess ==
    (gen_result = "True" \/ PlateActive) =>
        /\ dna_inventory_file = cycle0.dna + 1
        /\ rgnt_inventory_file = cycle0.rgnt + NumReagentWorklists

\* C10 witness: a cycle has reported success and plate monitoring runs.
C10_Witness ==
    /\ gen_result = "True"
    /\ PlateActive
    /\ pcSeq = "idle"
    /\ rgnt_inventory_file = NumReagentWorklists

\* Every queued event that a handler would act on (its path ends with f) is
\* still queued after the step, or is the event the step dispatched.
NoDrop(q, qNext, f) ==
    \A i \in 1..Len(q) :
        EndsWith(q[i], f) =>
            \/ Len(qNext) >= Len(q) /\ qNext[i] = q[i]
            \/ qNext = Tail(q)

\* C11: a notification that arrives while a transition is in flight is
\* queued and processed after the transition completes; no notification is
\* ever dropped.
C11_Claim ==
    [][Alive' => /\ NoDrop(seq_queue, seq_queue', sequence_file)
                 /\ NoDrop(plate_queue, plate_queue', input_filename)]_vars

\* The handlers that are executing: a generation cycle, a plate-data run, and
\* the plate-data runs that still have their last statement to execute.
HandlersExecuting ==
    (IF pcSeq # "idle" THEN 1 ELSE 0) + (IF pcPlate # "idle" THEN 1 ELSE 0)
        + orphans

\* C12: notification handlers never execute concurrently: at any time at most
\* one handler is executing, also while the plate handler restarts sequence
\* monitoring from inside its own callback.
C12_Claim == HandlersExecuting <= 1

\* C13 as stated: whenever the phase is Idle or Error, neither subscription
\* is active.
C13_Original == status \in {"IDLE", "ERROR"} => ActiveSet = {}

\* C13 amended: in the phase Error neither subscription is active; in the
\* phase Idle plate-data monitoring is not active, and sequence-file
\* monitoring is active from the moment run() has started it until shutdown.
C13_Amended ==
    /\ status = "ERROR" => ActiveSet = {}
    /\ status = "IDLE" => (~PlateActive /\ (pcMain = "sleeping" => SeqActive))

\* C13 witness: the controller is idle, waiting for the first sequence, with
\* a notification queued.
C13_Witness ==
    /\ status = "IDLE"
    /\ pcMain = "sleeping"
    /\ ActiveSet = {"sequence"}
    /\ seq_queue # <<>>

\* ---------------------------------------------------------- ledger claims
InitialFill(kind) == IF kind = "dna" THEN DnaInitialVolume ELSE RgntInitialVolume

Delta(event) ==
    IF event.key = "volume_used" THEN 0 - event.amount ELSE event.amount

RECURSIVE SumDeltas(_)
SumDeltas(h) ==
    IF h = <<>> THEN 0 ELSE SumDeltas(SubSeq(h, 1, Len(h) - 1)) + Delta(h[Len(h)])

HistoryAccountsFor(e, fill) ==
    /\ e.volume = fill + SumDeltas(e.history)
    /\ \A k \in 1..Len(e.history) :
           e.history[k].total = fill + SumDeltas(SubSeq(e.history, 1, k))

\* C14: after any sequence of debits and credits, every entry's volume, in
\* memory and in the saved inventory, is its initial fill plus the signed
\* deltas of its history (minus each volume_used, plus each volume_added),
\* and the total recorded in each event is the volume right after that event.
C14_RunningTotal ==
    /\ \A i \in DOMAIN inventory :
           HistoryAccountsFor(inventory[i], InitialFill(tracker_kind))
    /\ \A i \in DOMAIN inventory_file :
           HistoryAccountsFor(inventory_file[i], InitialFill(tracker_kind))

\* A saved entry that has been debited and credited.
C14_Witness ==
    /\ pcTracker = "idle"
    /\ \E i \in DOMAIN inventory_file :
           LET h == inventory_file[i].history
           IN  /\ \E k \in DOMAIN h : h[k].key = "volume_used"
               /\ \E k \in DOMAIN h : h[k].key = "volume_added"
               /\ inventory_file[i].volume # InitialFill(tracker_kind)

\* The call just completed is a credit that returned, the call before it a
\* debit of one row, and both changed the same entry.
DebitThenCredit ==
    /\ pcTracker = "idle"
    /\ call.op = "credit" /\ call.outcome = "returned"
    /\ prev.op = "debit"
    /\ prev.touched # {}
    /\ Touched(call.before, inventory) = prev.touched

\* C15: a debit of an amount followed by a credit of the same amount to the
\* same entry leaves the entry's volume, in memory and saved, at its value
\* before the debit.
C15_RoundTrip ==
    (DebitThenCredit /\ call.amount = prev.amount) =>
        \A i \in prev.touched :
            /\ inventory[i].volume = prev.volume_before
            /\ inventory_file[i].volume = prev.volume_before

\* The round trip happened: the entry holds the debit and the credit event.
C15_Witness ==
    /\ DebitThenCredit
    /\ call.amount = prev.amount
    /\ \E i \in prev.touched : Len(inventory[i].history) = 2

CallReturned ==
    /\ pcTracker = "idle"
    /\ call.op \in {"debit", "credit"}
    /\ call.outcome = "returned"

HistoryGrowth(i) == Len(inventory[i].history) - Len(call.before[i].history)

\* C16 as stated: a debit call or a credit call that returned has lengthened
\* the history of each entry it changed by exactly one event.
C16_Original ==
    CallReturned =>
        \A i \in Touched(call.before, inventory) : HistoryGrowth(i) = 1

\* Two well strings naming the same well: same row letter, same column number.
SameWell(w1, w2) == w1.row = w2.row /\ int(w1.col) = int(w2.col)

\* Rows of the worklist that the tracker considers and that name the well of
\* entry i.
RowsNaming(rows, i) ==
    {k \in DOMAIN rows :
        /\ tracker_kind = "rgnt" => rows[k].Source_Plate = "Reagents"
        /\ SameWell(rows[k].Source_Well, inventory[i].well)}

\* C16 amended: a credit call that resolves its target lengthens the history
\* of exactly one entry by one event (and of no entry when it resolves
\* nothing); a debit call lengthens the history of every entry by one event
\* per worklist row naming that entry's well, so by more than one when the
\* worklist names a well more than once.
C16_Amended ==
    CallReturned =>
        /\ call.op = "credit" =>
               /\ \A i \in DOMAIN inventory : HistoryGrowth(i) \in {0, 1}
               /\ Cardinality(Touched(call.before, inventory)) = Len(call.updates)
               /\ Len(call.updates) <= 1
        /\ call.op = "debit" =>
               \A i \in DOMAIN inventory :
                   HistoryGrowth(i) = Cardinality(RowsNaming(call.rows, i))

\* A debit whose worklist named one tracked well in two rows has returned.
C16_Witness ==
    /\ CallReturned
    /\ call.op = "debit"
    /\ \E i \in DOMAIN inventory :
           /\ Cardinality(RowsNaming(call.rows, i)) = 2
           /\ HistoryGrowth(i) = 2

\* The well named by the call just completed, when it named exactly one:
\* a credit by well alone, or a debit of one row that the tracker considers.
NamedWell ==
    IF call.op = "credit" /\ call.id = NoId THEN call.well
    ELSE IF /\ call.op = "debit" /\ Len(call.rows) = 1
            /\ tracker_kind = "rgnt" => call.rows[1].Source_Plate = "Reagents"
         THEN call.rows[1].Source_Well
    ELSE NoWell

\* A debit and a credit, in either order, have named the same well, one in
\* unpadded and the other in zero-padded form.
TwoFormsNamed ==
    /\ CallReturned
    /\ NamedWell # NoWell
    /\ prev.op \in {"debit", "credit"} /\ prev.op # call.op
    /\ prev.op = "debit" /\ tracker_kind = "rgnt" => prev.plate = "Reagents"
    /\ SameWell(prev.well, NamedWell)
    /\ prev.well # NamedWell

\* C17: a debit naming a well in one form (D6) and a credit naming it in the
\* other form (D06), in either order, change the same ledger entry, the one
\* stored for that well, whether the ledger stores D6 or D06.
C17_SameEntry ==
    TwoFormsNamed =>
        /\ Touched(call.before, inventory) = prev.touched
        /\ prev.touched = {i \in DOMAIN inventory :
                               SameWell(inventory[i].well, NamedWell)}
        /\ prev.touched # {}

\* The ledger stores D6, the debit named D6 and the credit named D06.
C17_Witness ==
    /\ TwoFormsNamed
    /\ call.op = "credit"
    /\ call.well = Well("D", <<0, 6>>)
    /\ \E i \in Touched(call.before, inventory) :
           inventory[i].well = Well("D", <<6>>)

RECURSIVE SumVolumes(_, _)
SumVolumes(rows, K) ==
    IF K = {} THEN 0
    ELSE LET k == CHOOSE x \in K : TRUE
         IN  rows[k].Volume + SumVolumes(rows, K \ {k})

\* Rows of the worklist that the tracker considers and that name no tracked
\* well.
UnmatchedRows(rows) ==
    {k \in DOMAIN rows :
        /\ tracker_kind = "rgnt" => rows[k].Source_Plate = "Reagents"
        /\ \A i \in DOMAIN inventory :
               ~SameWell(rows[k].Source_Well, inventory[i].well)}

\* A debit has ended whose worklist had a row naming no tracked well.
DebitWithUnmatched ==
    /\ pcTracker = "idle"
    /\ call.op = "debit"
    /\ UnmatchedRows(call.rows) # {}

\* C18: a debit over a worklist with rows that match no tracked entry
\* returns normally, has subtracted the volume of every matching row from
\* its entry and appended one history event per matching row, returns one
\* update per matching row, has saved the result, and has left every entry
\* that no row matches as it was.
C18_UnmatchedSkipped ==
    DebitWithUnmatched =>
        /\ call.outcome = "returned"
        /\ inventory_file = inventory
        /\ Len(call.updates) + Cardinality(UnmatchedRows(call.rows))
              = Cardinality({k \in DOMAIN call.rows :
                                tracker_kind = "rgnt" =>
                                    call.rows[k].Source_Plate = "Reagents"})
        /\ \A i \in DOMAIN inventory :
               /\ inventory[i].volume
                     = call.before[i].volume
                         - SumVolumes(call.rows, RowsNaming(call.rows, i))
               /\ HistoryGrowth(i) = Cardinality(RowsNaming(call.rows, i))
               /\ RowsNaming(call.rows, i) = {} =>
                      inventory[i] = call.before[i]

\* The worklist had a matching row after an unmatched one.
C18_Witness ==
    /\ DebitWithUnmatched
    /\ call.outcome = "returned"
    /\ 1 \in UnmatchedRows(call.rows)
    /\ \E i \in DOMAIN inventory : 2 \in RowsNaming(call.rows, i)
    /\ Touched(call.before, inventory) # {}

\* Rows from the shared-reagent plate that name the well of entry i.
ReagentRowsNaming(rows, i) ==
    {k \in DOMAIN rows :
        /\ rows[k].Source_Plate = "Reagents"
        /\ SameWell(rows[k].Source_Well, inventory[i].well)}

\* Rows from another plate whose well is a tracked reagent well.
CoincidingRows(rows) ==
    {k \in DOMAIN rows :
        /\ rows[k].Source_Plate # "Reagents"
        /\ \E i \in DOMAIN inventory :
               SameWell(rows[k].Source_Well, inventory[i].well)}

\* C19: during and after a debit of the reagent ledger, every entry has lost
\* exactly the volumes of the rows read so far whose source plate is
\* Reagents and whose well is the entry's, and an entry named by no such row
\* is as it was before the call, even when a row from another plate names
\* its well.
C19_OnlyReagentRows ==
    (tracker_kind = "rgnt" /\ call.op = "debit") =>
        \A i \in DOMAIN inventory :
            /\ inventory[i].volume
                  = call.before[i].volume
                      - SumVolumes(call.rows, ReagentRowsNaming(call.rows, i))
            /\ ReagentRowsNaming(call.rows, i) = {} =>
                   inventory[i] = call.before[i]

\* A reagent debit has returned whose worklist held rows of the DNA
\* fragment plate naming a tracked reagent well, and nothing else.
C19_Witness ==
    /\ tracker_kind = "rgnt"
    /\ CallReturned
    /\ call.op = "debit"
    /\ CoincidingRows(call.rows) = DOMAIN call.rows
    /\ call.rows # <<>>
    /\ inventory = call.before
    /\ inventory_file = call.before

\* A credit has ended whose target was given and matches neither a tracked
\* id nor a tracked well.
CreditOfUnknownTarget ==
    /\ pcTracker = "idle"
    /\ call.op = "credit"
    /\ call.id # NoId \/ call.well # NoWell
    /\ \A i \in DOMAIN call.before :
           /\ call.before[i].id # call.id
           /\ call.well # NoWell => ~SameWell(call.well, call.before[i].well)

\* C20: a credit whose target matches neither a tracked id nor a tracked
\* well (also one given only an unknown id) fails with an error instead of
\* returning normally, and leaves every entry's volume and history unchanged.
C20_Claim ==
    CreditOfUnknownTarget =>
        /\ call.outcome # "returned"
        /\ inventory = call.before
        /\ inventory_file = call.before

RECURSIVE SumAmounts(_, _)
SumAmounts(updates, K) ==
    IF K = {} THEN 0
    ELSE LET k == CHOOSE x \in K : TRUE
         IN  updates[k].amount + SumAmounts(updates, K \ {k})

\* The number a report line shows as volume.
Shown(line) ==
    IF line.volume.sign = "-" THEN 0 - line.volume.whole ELSE line.volume.whole

\* C21: a debit never clamps. Each update record of a debit carries the
\* entry's volume before the call minus everything the call has debited from
\* it so far, below zero when the debits exceed it; the entry stores the
\* same exact difference, the saved inventory holds it when the call
\* returns, and a report shows the stored volume of every entry as it is.
C21_NoClamp ==
    /\ call.op = "debit" =>
           /\ \A k \in DOMAIN call.updates :
                  \E i \in DOMAIN call.before :
                      /\ call.before[i].id = call.updates[k].id
                      /\ call.updates[k].total
                            = call.before[i].volume
                                - SumAmounts(call.updates,
                                     {j \in 1..k :
                                        call.updates[j].id = call.updates[k].id})
           /\ \A i \in DOMAIN inventory :
                  inventory[i].volume
                    = call.before[i].volume
                        - SumAmounts(call.updates,
                             {j \in DOMAIN call.updates :
                                call.updates[j].id = inventory[i].id})
    /\ (CallReturned /\ call.op = "debit") => inventory_file = inventory
    /\ call.op = "report" =>
           \A k \in DOMAIN call.updates :
               \E i \in DOMAIN inventory :
                   /\ inventory[i].id = call.updates[k].id
                   /\ Shown(call.updates[k]) = inventory[i].volume
                   /\ call.updates[k].volume.tenth = 0

\* A report shows a negative volume that an overdrawing debit has saved.
C21_Witness ==
    /\ call.op = "report"
    /\ \E k \in DOMAIN call.updates :
           /\ call.updates[k].volume.sign = "-"
           /\ \E i \in DOMAIN inventory_file :
                  /\ inventory_file[i].id = call.updates[k].id
                  /\ inventory_file[i].volume < 0
                  /\ inventory_file[i].volume = Shown(call.updates[k])
                  /\ inventory_file[i].history # <<>>
                  /\ inventory_file[i].history[Len(inventory_file[i].history)].total < 0

SortedById(lines) ==
    \A k \in 1..(Len(lines) - 1) : StrLess(ord(lines[k].id), ord(lines[k + 1].id))

\* C22: the report has one line per entry of the inventory and no other, in
\* ascending order of id, each line with the entry's well and with status LOW
\* exactly when the entry's volume is below 50, and OK otherwise.
C22_Report ==
    call.op = "report" =>
        /\ Len(call.updates) = Len(inventory)
        /\ \A i \in DOMAIN inventory :
               Cardinality({k \in DOMAIN call.updates :
                               call.updates[k].id = inventory[i].id}) = 1
        /\ SortedById(call.updates)
        /\ \A k \in DOMAIN call.updates :
               \E i \in DOMAIN inventory :
                   /\ inventory[i].id = call.updates[k].id
                   /\ inventory[i].well = call.updates[k].well
                   /\ call.updates[k].status \in {"LOW", "OK"}
                   /\ call.updates[k].status = "LOW" <=> inventory[i].volume < 50

\* A report of the DNA inventory with an entry at the threshold exactly,
\* shown as OK, among entries above it.
C22_Witness ==
    /\ call.op = "report"
    /\ tracker_kind = "dna"
    /\ \E k \in DOMAIN call.updates :
           call.updates[k].status = "OK" /\ Shown(call.updates[k]) = 50
    /\ \E k \in DOMAIN call.updates : call.updates[k].status = "OK"
                                      /\ Shown(call.updates[k]) > 50

\* C23: when a debit or credit call returns, the content of the inventory
\* file equals the inventory in memory, every change of that call included.
C23_SavedOnReturn == CallReturned => inventory_file = inventory

\* A call has returned that changed an entry, and the file differs from what
\* it held when the call began.
C23_Witness ==
    /\ CallReturned
    /\ Touched(call.before, inventory) # {}
    /\ inventory_file # call.persisted
    /\ \E i \in Touched(call.before, inventory) :
           Len(inventory_file[i].history) > Len(call.persisted[i].history)

\* C24: at every point of a run of tracker calls, which is what a crash at
\* that point leaves behind, the inventory file holds the inventory as some
\* completed operation left it: as it was when the call in flight began, or
\* as the call just completed saved it. It is never empty or partly written.
C24_Claim ==
    /\ inventory_file # Truncated
    /\ \/ inventory_file = call.persisted
       \/ pcTracker \in {"idle", "exit"} /\ inventory_file = inventory

IsPrefix(h1, h2) == Len(h1) <= Len(h2) /\ SubSeq(h2, 1, Len(h1)) = h1

\* C25: with calls issued one at a time, from either of two tracker
\* instances, every call that has returned started from the inventory the
\* file held when the call began, and the file it leaves keeps every history
\* event the file held then: no saved update is overwritten or lost.
C25_Claim ==
    (/\ pcTracker = "idle"
     /\ call.op \in {"debit", "credit", "other_credit"}
     /\ call.outcome = "returned") =>
        /\ call.before = call.persisted
        /\ \A i \in DOMAIN call.persisted :
               IsPrefix(call.persisted[i].history, inventory_file[i].history)

\* ------------------------------------------------------- planning claims
\* The library string a fragment id names.
LibraryString(id) ==
    LET p == CHOOSE q \in DOMAIN data : data[q].name = SubSeq(id, 1, 2)
    IN  data[p].frags[id[4] + 1]

RECURSIVE ConcatOf(_)
ConcatOf(ids) ==
    IF ids = <<>> THEN <<>>
    ELSE ConcatOf(SubSeq(ids, 1, Len(ids) - 1)) \o LibraryString(ids[Len(ids)])

\* Non-empty library strings that the target has at offset at.
PrefixesAt(at) ==
    {f \in UNION {{data[p].frags[c] : c \in DOMAIN data[p].frags} :
                     p \in DOMAIN data} :
        /\ f # <<>>
        /\ at + Len(f) <= Len(sequence)
        /\ SubSeq(sequence, at + 1, at + Len(f)) = f}

\* The target from offset at on is a concatenation of non-empty library
\* strings.
RECURSIVE CanTile(_)
CanTile(at) ==
    \/ at = Len(sequence)
    \/ \E f \in PrefixesAt(at) : CanTile(at + Len(f))

\* C26: for a target that is an exact concatenation of non-empty library
\* fragments, find_sequence_fragments does not raise, and what it returns
\* names fragments whose strings concatenate to the target.
C26_Claim ==
    CanTile(0) =>
        /\ pcFind # "raised"
        /\ pcFind = "returned" => ConcatOf(returned.result) = sequence

\* C27: all through the loop the strings of the ids found so far
\* concatenate to the target up to the cursor, which never passes the end of
\* the target; so a tiling that is returned concatenates to the target
\* exactly, with the cursor at the target's length, and an empty target
\* gives the empty tiling.
C27_ExactCover ==
    /\ start <= Len(sequence)
    /\ ConcatOf(result) = SubSeq(sequence, 1, start)
    /\ pcFind = "returned" =>
           /\ returned.error = ""
           /\ start = Len(sequence)
           /\ ConcatOf(returned.result) = sequence
           /\ sequence = <<>> => returned.result = <<>>

\* A tiling of two fragments of different lengths has been returned.
C27_Witness ==
    /\ pcFind = "returned"
    /\ Len(returned.result) = 2
    /\ Len(sequence) = 3

\* C28: when find_sequence_fragments raises, the position it reports is the
\* cursor: the total length of the fragments matched so far, which cover the
\* target up to there, an offset inside the target at which no non-empty
\* library string is a prefix of the rest; and the caller receives neither
\* fragment ids nor wells.
C28_FailFast ==
    pcFind = "raised" =>
        /\ returned.error = "ValueError"
        /\ returned.position = start
        /\ returned.position < Len(sequence)
        /\ ConcatOf(result) = SubSeq(sequence, 1, returned.position)
        /\ PrefixesAt(returned.position) = {}
        /\ returned.result = <<>>
        /\ returned.index = <<>>

\* It raised after matching a fragment, at an offset past the beginning.
C28_Witness ==
    /\ pcFind = "raised"
    /\ result # <<>>
    /\ returned.position > 0

\* The sequences all tile into exactly the required number of fragments.
AllExact ==
    \A i \in DOMAIN all_fragments : Len(all_fragments[i]) = RequiredFragments

\* The sequences whose tiling has another number of fragments.
Mismatched ==
    {i \in DOMAIN all_fragments : Len(all_fragments[i]) # RequiredFragments}

\* The target rank of row j when every target has RequiredFragments rows.
RankOf(j) == ((j - 1) \div RequiredFragments) + 1

\* C29: for any number n of targets, each with exactly the required number
\* k of fragments, the worklist builder succeeds and produces n*k rows whose
\* Index values are the 2-digit numbers 01..n*k in ascending order, the rows
\* of target rank r before those of rank r+1.
C29_Claim ==
    (written.pc # "main" /\ AllExact) =>
        /\ written.error = ""
        /\ Len(written.rows) = Len(all_fragments) * RequiredFragments
        /\ \A j \in DOMAIN written.rows :
              /\ written.rows[j].Index = zfill(str(j))
              /\ Len(written.rows[j].Index) = 2
              /\ written.rows[j].Source_Well =
                     format_well(well_dict(all_fragments[RankOf(j)]
                                    [j - (RankOf(j) - 1) * RequiredFragments]))

\* C30: the worklist builder fails with a fragment-count mismatch that
\* identifies the sequence whenever a tiling's fragment count differs from
\* the required count, succeeds only if every tiling has exactly that many
\* fragments, and on failure writes no worklist.
C30_Claim ==
    written.pc # "main" =>
        /\ Mismatched # {} =>
               /\ written.error = "ValueError"
               /\ written.seq_num \in Mismatched
        /\ written.error = "" => Mismatched = {}
        /\ written.error # "" => worklist_file = NoFile

\* Parts of C29 and C30 taken alone, to locate the divergences.
C29_UpToThreeTargets ==
    (written.pc # "main" /\ AllExact /\ Len(all_fragments) <= 3
        /\ \A i \in DOMAIN all_fragments :
               \A k \in DOMAIN all_fragments[i] :
                   in_well_dict(all_fragments[i][k])) =>
        /\ written.error = ""
        /\ Len(written.rows) = Len(all_fragments) * RequiredFragments
        /\ \A j \in DOMAIN written.rows :
               written.rows[j].Index = zfill(str(j))

C30_NothingWrittenOnFailure ==
    (written.pc # "main" /\ written.error # "") =>
        /\ worklist_file = NoFile
        /\ written.pc = "exit" => written.code = 1

\* The position within its sequence of row j.
PosOf(j) == j - (RankOf(j) - 1) * RequiredFragments

\* C31: the rows of a written worklist are ordered by sequence rank and,
\* within a sequence, by fragment position (the order of the wells that
\* find_sequence_fragments returned), and Index counts 1, 2, 3, ... row by
\* row.
C31_RowOrder ==
    written.error = "" =>
        /\ worklist_file.rows = written.rows
        /\ Len(written.rows) = Len(all_wells) * RequiredFragments
        /\ \A j \in DOMAIN written.rows :
              /\ int(written.rows[j].Index) = j
              /\ RankOf(j) \in DOMAIN all_wells
              /\ written.rows[j].Destination_Well =
                     get_destination_well(RankOf(j))
              /\ written.rows[j].Source_Well =
                     format_well(all_wells[RankOf(j)][PosOf(j)])
        /\ \A i \in DOMAIN all_wells : all_wells[i] = WellsOf(all_fragments[i])

C31_Witness ==
    /\ written.error = ""
    /\ Len(all_wells) = 3
    /\ Len(worklist_file.rows) = 3 * RequiredFragments

\* ------------------------------------------------------- layout claims
\* The well the loops compute for sugar block c (0-based), replicate r
\* (1-based) and sequence rank s (0-based).
SampleWell(c, r, s) == Well(plate_rows[r], str(sugar_col_start(c) + s))

Triples ==
    (0..(Len(sugars) - 1)) \X (1..Len(plate_rows)) \X (0..(Len(sequence_fragments) - 1))

\* The columns of sugar block c.
BlockColumns(c) == sugar_col_start(c)..(sugar_col_start(c) + BlockWidth - 1)

SugarIdx(sugar) == CHOOSE c \in 0..(Len(sugars) - 1) : sugars[c + 1] = sugar

\* C32: in the generated layout, for any number of sequences, distinct
\* (sequence, replicate, condition) triples have distinct wells, every
\* sample well lies inside the column block of its own condition, and no
\* sample well coincides with a negative-control well.
C32_Claim ==
    pcLayout # "main" =>
        /\ \A t, u \in Triples :
               t # u => SampleWell(t[1], t[2], t[3]) # SampleWell(u[1], u[2], u[3])
        /\ \A w \in DOMAIN layout :
               layout[w].kind = "sample" =>
                   int(w.col) \in BlockColumns(SugarIdx(layout[w].sugar))
        /\ \A c \in 0..(Len(sugars) - 1), k \in 1..BlockWidth :
               LET g == Well("G", str(sugar_col_start(c) + (k - 1)))
               IN  g \in DOMAIN layout /\ layout[g].kind = "N"

\* C33: for every sugar block c, replicate r and sequence rank s the layout
\* maps the well of that replicate's row and column 3c+1+s to the label
\* <parent>-R<r>-<sugar>, and the wells G(3c+1)..G(3c+3) to N-<sugar>-R<k>.
C33_Claim ==
    pcLayout # "main" =>
        /\ \A t \in Triples :
               /\ SampleWell(t[1], t[2], t[3]) \in DOMAIN layout
               /\ layout[SampleWell(t[1], t[2], t[3])] =
                      SampleLabel(get_parent_sequence(sequence_fragments[t[3] + 1]),
                                  t[2], sugars[t[1] + 1])
        /\ \A c \in 0..(Len(sugars) - 1), k \in 1..BlockWidth :
               LET g == Well("G", str(sugar_col_start(c) + (k - 1)))
               IN  g \in DOMAIN layout /\ layout[g] = ControlLabel(sugars[c + 1], k)

\* The same two statements for runs of at most BlockWidth sequences.
C32_UpToThreeSequences == Len(sequence_fragments) <= BlockWidth => C32_Claim

C33_UpToThreeSequences == Len(sequence_fragments) <= BlockWidth => C33_Claim

\* ------------------------------------------------------ manage_dna claim
\* C34: after the bulk refill (manage_dna --refill with threshold t) has
\* completed, every DNA entry that was below t has been credited so that none
\* remains below t, the entries at or above t are unchanged, and the
\* inventory report has been shown.
C34_Claim ==
    (call.op = "bulk_refill" /\ pcTracker = "exit") =>
        /\ \A i \in DOMAIN call.before :
               IF call.before[i].volume < call.amount
               THEN inventory[i].volume >= call.amount
               ELSE inventory[i] = call.before[i]
        /\ call.updates = print_inventory_report(inventory)

\* What the code does instead: nothing is credited and nothing is saved.
C34_NothingRefilled ==
    (call.op = "bulk_refill" /\ pcTracker = "exit") =>
        /\ call.outcome = "AttributeError"
        /\ inventory = call.before
        /\ inventory_file = call.persisted

\* ------------------------------------------------------- analysis claim
\* The plate handler has dealt with the present content of the plate-data
\* file: it is idle and has recorded the content's hash as processed, so
\* that further events for this content return at once.
PlateContentHandled ==
    /\ PlateActive
    /\ pcPlate = "idle"
    /\ last_processed_hash = get_file_hash(plate_file)

\* C35: after plate monitoring has been started, new content written to the
\* plate-data file results in the analysis running to completion and the
\* processed-data file being produced: once the handler is through with the
\* content, the processed file of that content exists.
C35_Claim == PlateContentHandled => processed_file = Analyze(plate_file)

\* What happens instead: the processed-data file is never produced.
C35_NeverProduced == processed_file = Absent

\* ------------------------------------------------- more planning claims
\* The cell of the library an id names: row number and cell number.
CellOf(id) ==
    <<CHOOSE q \in DOMAIN data : data[q].name = SubSeq(id, 1, 2), id[4] + 1>>

\* The cells that come before cell c in the enumeration: earlier rows, and
\* earlier cells of the same row.
CellsBefore(c) ==
    {o \in UNION {{<<q, k>> : k \in DOMAIN data[q].frags} : q \in DOMAIN data} :
        o[1] < c[1] \/ (o[1] = c[1] /\ o[2] < c[2])}

\* The target has the string f at offset at.
HasAt(f, at) ==
    /\ at + Len(f) <= Len(sequence)
    /\ SubSeq(sequence, at + 1, at + Len(f)) = f

\* The offset at which the last id of result was matched.
LastOffset == start - Len(LibraryString(result[Len(result)]))

\* C36: the fragment chosen at the cursor is the first non-empty cell, in
\* the order rows of the file then cells of the row, whose string the target
\* has at the cursor, whatever its length: no earlier cell is a non-empty
\* prefix there.
C36_FirstInOrder ==
    result # <<>> =>
        LET c == CellOf(result[Len(result)])
            f == data[c[1]].frags[c[2]]
        IN  /\ f # <<>>
            /\ LastOffset >= 0
            /\ HasAt(f, LastOffset)
            /\ \A o \in CellsBefore(c) :
                   \/ data[o[1]].frags[o[2]] = <<>>
                   \/ ~HasAt(data[o[1]].frags[o[2]], LastOffset)

\* A shorter fragment was chosen although a longer one of a later cell
\* matched at the same offset, and an empty cell came before it.
C36_Witness ==
    /\ result # <<>>
    /\ \E g \in PrefixesAt(LastOffset) :
           Len(g) > Len(LibraryString(result[Len(result)]))
    /\ \E o \in CellsBefore(CellOf(result[Len(result)])) :
           data[o[1]].frags[o[2]] = <<>>

\* C37: each iteration of the outer loop either advances the cursor by at
\* least one character without passing the end of the target, or raises the
\* no-match error with the cursor where it was; the loop is left only with
\* the cursor at the end.  The cursor being bounded by the length of the
\* target, the loop ends after at most that many iterations.
C37_Progress ==
    [][pcFind = "loop" =>
          \/ /\ pcFind' = "loop"
             /\ start' > start
             /\ start' <= Len(sequence)
             /\ Len(result') = Len(result) + 1
          \/ /\ pcFind' = "raised"
             /\ start' = start
             /\ start < Len(sequence)
          \/ /\ pcFind' = "returned"
             /\ start' = start
             /\ start = Len(sequence)]_findVars

\* The loop has run to its end over a library with an empty cell in its
\* first row, in as many iterations as the target has characters.
C37_Witness ==
    /\ pcFind = "returned"
    /\ data[1].frags[1] = <<>>
    /\ Len(result) = MaxSeqLen
    /\ start = Len(sequence)

\* C38: for every target and library the find_sequence_fragments of
\* generate_assay_plate.py returns the tiling that the one of
\* seq_to_pipetting_steps.py returned, or raises at the position at which
\* that one raised.
C38_SameTiling ==
    pcLayout = "found" =>
        /\ plate_fragments.error = returned.error
        /\ plate_fragments.position = returned.position
        /\ plate_fragments.result = returned.result

\* Both have returned a tiling of two fragments taken from both rows.
C38_Witness ==
    /\ pcLayout = "found"
    /\ plate_fragments.error = ""
    /\ Len(plate_fragments.result) = 2
    /\ plate_fragments.result[1][2] # plate_fragments.result[2][2]

\* Both have raised, past the beginning of the target.
C38_WitnessRaised ==
    /\ pcLayout = "found"
    /\ plate_fragments.error = "ValueError"
    /\ plate_fragments.position > 0

\* --------------------------------------------------------- cycle claim
\* The number of occurrences of an id in the tilings of the cycle.
RECURSIVE CountIn(_, _)
CountIn(ids, id) ==
    IF ids = <<>> THEN 0
    ELSE CountIn(SubSeq(ids, 1, Len(ids) - 1), id)
             + (IF ids[Len(ids)] = id THEN 1 ELSE 0)

RECURSIVE OccurrencesUpTo(_, _)
OccurrencesUpTo(n, id) ==
    IF n = 0 THEN 0
    ELSE OccurrencesUpTo(n - 1, id) + CountIn(all_fragments[n], id)

Occurrences(id) == OccurrencesUpTo(Len(all_fragments), id)

\* The ids of the DNA ledger's default fill.
LedgerIds == {<<"p", q, "f", k>> : q \in 1..NumParents, k \in 0..(NumFragments - 1)}

\* C39: after the worklist and the DNA debit of a cycle have succeeded,
\* every DNA ledger entry has lost exactly 5 uL per occurrence of its id in
\* the tilings, with one history event per occurrence, and is otherwise as
\* it was; the well that well_dict gives an id, as the worklist spells it,
\* finds the ledger's entry of that id and no other, and no two entries of
\* the default fill have the same well.
C39_DebitPerOccurrence ==
    (call.op = "debit" /\ pcTracker = "exit") =>
        /\ inventory_file = inventory
        /\ \A i \in DOMAIN inventory :
               /\ inventory[i].id = call.before[i].id
               /\ inventory[i].well = call.before[i].well
               /\ inventory[i].volume =
                      call.before[i].volume
                          - WorklistVolume * Occurrences(inventory[i].id)
               /\ Len(inventory[i].history) =
                      Len(call.before[i].history) + Occurrences(inventory[i].id)
        /\ \A id \in LedgerIds :
               LET t == FindByWell(call.before,
                                   get_well_formats(format_well(well_dict(id))))
               IN  t # 0 /\ call.before[t].id = id
        /\ \A i, j \in DOMAIN inventory :
               i # j => \/ inventory[i].well.row # inventory[j].well.row
                        \/ int(inventory[i].well.col) # int(inventory[j].well.col)

\* A cycle of three sequences has been debited; one fragment occurs in all
\* three tilings and another eight times in one tiling.
C39_Witness ==
    /\ call.op = "debit" /\ pcTracker = "exit"
    /\ Len(all_fragments) = 3
    /\ Occurrences(<<"p", 1, "f", 0>>) = 2
    /\ Occurrences(<<"p", NumParents, "f", NumFragments - 1>>) = RequiredFragments
    /\ Occurrences(UnmappedId) = 1

\* ------------------------------------------------------- failed cycles
\* C40: when a generation cycle has failed, at whichever step, the saved
\* DNA and reagent ledgers are what they were when the cycle began.
C40_Claim ==
    gen_result = "False" =>
        /\ dna_inventory_file = cycle0.dna
        /\ rgnt_inventory_file = cycle0.rgnt

\* What holds of a failed cycle: the debits saved before the failing step
\* stay, at most one of the fragment worklist and one of each reagent
\* worklist.
C40_DebitsStay ==
    gen_result = "False" =>
        /\ dna_inventory_file - cycle0.dna \in {0, 1}
        /\ rgnt_inventory_file - cycle0.rgnt \in 0..NumReagentWorklists
        /\ rgnt_inventory_file # cycle0.rgnt => dna_inventory_file # cycle0.dna

====
